---- MODULE Spec2Model ----
(***************************************************************************)
(* Model of the psf-guard server's cache and freshness subsystem:          *)
(* the file-check cache (src/server/state.rs, FileCheckCache), the         *)
(* directory-tree cache slot, the singleton refresh task                   *)
(* (AppState::spawn_background_refresh / refresh_cache_unified_internal),  *)
(* and the request paths that touch them (src/server/handlers.rs).         *)
(*                                                                         *)
(* Every lock section of the code (one `.read()` / `.write()` block) is    *)
(* one atomic step; a function that takes several lock sections is a       *)
(* sequence of steps of the task or request that runs it, so that other    *)
(* tasks and requests interleave exactly where the code releases the lock. *)
(* Wall-clock time is abstracted to the two comparisons the code makes:    *)
(* `expired` (last_updated.elapsed() > cache_duration) and `old`           *)
(* (tree.is_older_than(300 s)).                                            *)
(***************************************************************************)
EXTENDS Integers, Sequences, FiniteSets, TLC

\* ------------------------------------------------------------------ bounds
MaxTasks == 2       \* refresh tasks that may be spawned in one behaviour
NumCallers == 2     \* requests / API calls that may be in flight at once
MaxCalls == 2       \* API calls and requests made in one behaviour
NumProjects == 1    \* projects in the catalog (each with one target, one image)
NumRoots == 2       \* configured image roots
NumPaths == 3       \* paths under the roots that carry the requested basename
NumTemplates == 1   \* how many of them are candidate template paths
NumImages == 2      \* rows of the acquiredimage table
MaxSessionImages == 3   \* images handed to the session splitter
MaxImages == 4      \* images handed to the analyzer
MaxFiles == 2       \* files below a scanned root
MaxRows == 4        \* image rows of the project whose files are checked

Tasks == 1..MaxTasks
Callers == 1..NumCallers
Projects == 1..NumProjects
Roots == 1..NumRoots

\* ------------------------------------------------------- catalog (read only)
\* The catalog is an external, read-only collaborator: project p has one
\* target, whose id is p, with one image whose FileName has basename p.
TargetsOf(p) == {p}
ImagesOfProject(p) == {p}
ImagesOfTarget(t) == {t}
Files == Projects
FileRoot(f) == ((f - 1) % NumRoots) + 1

RECURSIVE SetToSeq(_)
SetToSeq(S) == IF S = {} THEN << >>
               ELSE LET m == CHOOSE x \in S : \A y \in S : x <= y
                    IN <<m>> \o SetToSeq(S \ {m})

\* ------------------------------------------------------------- RefreshStatus
NotNeeded == "NotNeeded"
InProgressServeStale == "InProgressServeStale"
InProgressWait == "InProgressWait"
NeedsRefresh == "NeedsRefresh"

\* ------------------------------------------------------------ FileCheckCache
EmptyMap == [k \in {} |-> [has_files |-> FALSE, scan |-> 0]]

\* FileCheckCache::new
FileCheckCache_new ==
    [projects_with_files |-> EmptyMap,
     targets_with_files |-> EmptyMap,
     expired |-> FALSE,
     refresh_in_progress |-> FALSE,
     has_initial_data |-> FALSE,
     stage |-> "Idle"]

is_expired(c) == c.expired

\* FileCheckCache::clear
clear(c) ==
    [c EXCEPT !.projects_with_files = EmptyMap,
              !.targets_with_files = EmptyMap,
              !.expired = FALSE,
              !.refresh_in_progress = FALSE,
              !.has_initial_data = FALSE,
              !.stage = "Idle"]

mark_refresh_started_leaves_flag(c) ==
    [c EXCEPT !.stage = "InitializingDirectoryTree"]

\* FileCheckCache::mark_refresh_started (with RefreshProgress::start_refresh)
mark_refresh_started(c) ==
    [c EXCEPT !.refresh_in_progress = TRUE,
              !.stage = "InitializingDirectoryTree"]

mark_refresh_completed_keeps_flag(c) ==
    [c EXCEPT !.has_initial_data = TRUE,
              !.expired = FALSE,
              !.stage = "Completed"]

\* FileCheckCache::mark_refresh_completed (with RefreshProgress::complete_refresh)
mark_refresh_completed(c) ==
    [c EXCEPT !.refresh_in_progress = FALSE,
              !.has_initial_data = TRUE,
              !.expired = FALSE,
              !.stage = "Completed"]

get_refresh_status_no_ttl(c) ==
    IF c.refresh_in_progress
    THEN IF c.has_initial_data THEN InProgressServeStale ELSE InProgressWait
    ELSE IF (~c.has_initial_data
             /\ DOMAIN c.projects_with_files = {}
             /\ DOMAIN c.targets_with_files = {})
         THEN NeedsRefresh
         ELSE NotNeeded

\* FileCheckCache::get_refresh_status
get_refresh_status(c) ==
    IF c.refresh_in_progress
    THEN IF c.has_initial_data THEN InProgressServeStale ELSE InProgressWait
    ELSE IF is_expired(c)
            \/ (~c.has_initial_data
                /\ DOMAIN c.projects_with_files = {}
                /\ DOMAIN c.targets_with_files = {})
         THEN NeedsRefresh
         ELSE NotNeeded

\* AppState::spawn_background_refresh run from its first line to its return
\* with no other lock holder in between: the cache it leaves, the status it
\* returns, and whether it spawned a refresh task
spawn_background_refresh(c) ==
    IF c.refresh_in_progress
    THEN [cache |-> c,
          status |-> IF c.has_initial_data THEN InProgressServeStale ELSE InProgressWait,
          started |-> FALSE]
    ELSE LET started == mark_refresh_started(c)
         IN [cache |-> started,
             status |-> IF started.has_initial_data
                        THEN InProgressServeStale ELSE InProgressWait,
             started |-> TRUE]

\* AppState::ensure_cache_available, run likewise without interruption
ensure_cache_available(c) ==
    LET status == get_refresh_status(c)
    IN IF status = NeedsRefresh
       THEN spawn_background_refresh(c)
       ELSE [cache |-> c, status |-> status, started |-> FALSE]

\* impl From<RefreshStatus> for ApiRefreshStatus
ApiRefreshStatus_from(status) ==
    CASE status = NotNeeded -> "ready"
      [] status = InProgressServeStale -> "refreshing"
      [] status = InProgressWait -> "loading"
      [] status = NeedsRefresh -> "loading"

\* ------------------------------------------------------------- DirectoryTree
\* A tree value: the basenames it indexes, how many roots its builder has
\* walked, and whether it is older than the 5-minute freshness window.
NoTree == [some |-> FALSE, files |-> {}, roots_done |-> 0, old |-> FALSE]

\* The builder walking one more root of the disk into the tree under
\* construction (build_multiple / build_multiple_with_progress, one root).
ScanRoot(tree, d) ==
    [some |-> TRUE,
     files |-> tree.files \cup {f \in d : FileRoot(f) = tree.roots_done + 1},
     roots_done |-> tree.roots_done + 1,
     old |-> FALSE]

RECURSIVE BuildFrom(_, _)
BuildFrom(tree, d) ==
    IF tree.roots_done >= NumRoots THEN tree ELSE BuildFrom(ScanRoot(tree, d), d)

\* DirectoryTree::build_multiple: a finished walk of every root
build_multiple(d) == BuildFrom([NoTree EXCEPT !.some = TRUE], d)

\* DirectoryTree::find_file_first(..).is_some()
find_file_first(tree, f) == f \in tree.files

IsFresh(slot) == slot.some /\ ~slot.old

\* AppState::get_directory_tree (and refresh_directory_tree_if_needed, which
\* has the same body): the tree the caller works with and the new slot.
get_directory_tree(slot, d) ==
    IF IsFresh(slot)
    THEN [tree |-> slot, slot |-> slot]
    ELSE LET built == build_multiple(d) IN [tree |-> built, slot |-> built]

\* the (has_any_files) component of check_project_files_with_details
check_project_files(tree, p) == \E f \in ImagesOfProject(p) : find_file_first(tree, f)

\* the (has_any_files) component of check_target_files_with_details
check_target_files(tree, t) == \E f \in ImagesOfTarget(t) : find_file_first(tree, f)

\* ------------------------------------------------------------ path resolver
\* The paths that carry the basename of the requested image. Paths
\* 1..NumTemplates are the candidate template paths, in the order in which
\* find_fits_file tries them; the others lie elsewhere under the roots and
\* can only be found through the directory-tree index.
Paths == 1..NumPaths

\* get_possible_paths over every image root, concatenated (all_possible_paths)
all_possible_paths == [i \in 1..NumTemplates |-> i]

\* every order in which a walk can meet the files of S
RECURSIVE Orders(_)
Orders(S) ==
    IF S = {} THEN {<< >>}
    ELSE UNION {{<<x>> \o o : o \in Orders(S \ {x})} : x \in S}

\* the slot as find_fits_file sees it: file_map[filename] of the tree in it
NoIndex == [some |-> FALSE, paths |-> << >>, old |-> FALSE]

\* DirectoryTree::build_multiple, for one basename: the walk pushes every
\* file it meets onto file_map[basename], in the order of the walk
BuiltIndexes(d) == {[some |-> TRUE, paths |-> o, old |-> FALSE] : o \in Orders(d)}

\* Path::exists
exists(p, d) == p \in d

NoResult == [kind |-> "none", path |-> 0, via |-> "none"]
Ok(p, via) == [kind |-> "Ok", path |-> p, via |-> via]
Err(e) == [kind |-> e, path |-> 0, via |-> "none"]

IdleResolve == [pc |-> "idle", idx |-> 0, directory_tree |-> << >>, result |-> NoResult]

LookupResult_unchecked(directory_tree, d) ==
    IF directory_tree # << >>
    THEN Ok(Head(directory_tree), "tree")
    ELSE Err("NotFound")

\* find_fits_file, the fallback: find_file_first(filename), the exists()
\* test of that one path, and Err(AppError::NotFound) otherwise
LookupResult(directory_tree, d) ==
    IF directory_tree # << >> /\ exists(Head(directory_tree), d)
    THEN Ok(Head(directory_tree), "tree")
    ELSE Err("NotFound")

\* ----------------------------------------------------------- artifact cache
\* One image record; its FITS file is image_dim pixels on its longer side.
ImageDims == {1000, 3000}

\* the formats of PregenerationConfig, in the order the worker takes them
Formats == <<"screen", "large", "original", "annotated">>

\* what an on-demand request can ask for (PreviewOptions); midtone and shadow
\* are kept at their defaults, in the unit of the key (value * 10000)
OnDemandSizes == {"screen"}
DefaultMidtone == 2000
DefaultShadow == -28000
DefaultMaxStars == 1000
PreviewRequests ==
    [kind : {"preview"}, size : OnDemandSizes, stretch : {TRUE},
     midtone : {DefaultMidtone}, shadow : {DefaultShadow}, max_stars : {DefaultMaxStars}]
AnnotatedRequests ==
    [kind : {"annotated"}, size : OnDemandSizes, stretch : {TRUE},
     midtone : {DefaultMidtone}, shadow : {DefaultShadow}, max_stars : {DefaultMaxStars}]
Options == PreviewRequests \cup AnnotatedRequests

\* get_image_preview / pregenerate_preview: the cache key of a preview (the
\* fields that identify the image are the same in every key of the model)
preview_cache_key(size, stretch, midtone, shadow) ==
    <<"previews", size, IF stretch THEN "stretch" ELSE "linear", midtone, shadow>>

\* get_annotated_image / pregenerate_annotated: the cache key of an
\* annotated image
annotated_cache_key(size, max_stars) == <<"annotated", size, max_stars>>

\* the key an on-demand request builds from its options
request_key(o) ==
    IF o.kind = "preview"
    THEN preview_cache_key(o.size, o.stretch, o.midtone, o.shadow)
    ELSE annotated_cache_key(o.size, o.max_stars)

\* the key the worker builds for a format
pregenerate_key(format) ==
    IF format = "annotated"
    THEN annotated_cache_key("screen", 1000)
    ELSE preview_cache_key(format, TRUE, 2000, -28000)

Keys == {request_key(o) : o \in Options}
        \cup {pregenerate_key(Formats[i]) : i \in DOMAIN Formats}

\* max_dimensions of a size; 0 stands for None (no resize)
max_dimensions(size) ==
    CASE size = "large" -> 2000
      [] size = "screen" -> 1200
      [] size = "original" -> 0
      [] OTHER -> 1200

\* the longer side after the resize to a bound
Resized(dim, bound) == IF bound = 0 \/ dim <= bound THEN dim ELSE bound

NoOutput == [kind |-> "none", dim |-> 0, midtone |-> 0, shadow |-> 0, max_stars |-> 0]

\* what stretch_to_png_with_resize is asked to render (both callers)
preview_output(size, midtone, shadow, dim) ==
    [kind |-> "preview", dim |-> Resized(dim, max_dimensions(size)),
     midtone |-> midtone, shadow |-> shadow, max_stars |-> 0]

\* get_annotated_image: create_annotated_image and the resize by size
annotated_output(size, max_stars, dim) ==
    [kind |-> "annotated", dim |-> Resized(dim, max_dimensions(size)),
     midtone |-> 2000, shadow |-> -28000, max_stars |-> max_stars]

\* what an on-demand request with options o renders
request_output(o, dim) ==
    IF o.kind = "preview"
    THEN preview_output(o.size, o.midtone, o.shadow, dim)
    ELSE annotated_output(o.size, o.max_stars, dim)

\* pregenerate_annotated: create_annotated_image, saved as it is
pregenerate_annotated_output(dim) ==
    [kind |-> "annotated", dim |-> dim,
     midtone |-> 2000, shadow |-> -28000, max_stars |-> 1000]

\* what the worker renders for a format
pregenerate_output(format, dim) ==
    IF format = "annotated"
    THEN pregenerate_annotated_output(dim)
    ELSE preview_output(format, 2000, -28000, dim)

\* a file of the cache directory: whether it is there, whether its writer
\* has written all of it, whether its mtime age has reached cache_expiry,
\* and what was rendered into it
NoFile == [present |-> FALSE, complete |-> FALSE, old |-> FALSE, out |-> NoOutput]
PartialFile == [present |-> TRUE, complete |-> FALSE, old |-> FALSE, out |-> NoOutput]
CompleteFile(out) == [present |-> TRUE, complete |-> TRUE, old |-> FALSE, out |-> out]

\* CacheManager::is_cached
is_cached(file) == file.present

should_skip_ignoring_age(file) == is_cached(file)

\* pregenerate_preview / pregenerate_annotated: "Skip if already cached and
\* not expired"
should_skip(file) == is_cached(file) /\ ~file.old

\* stretch_to_png_with_resize(fits, Some(cache_path), ..): the file it leaves
stretch_to_png_with_resize(ok, out) == IF ok THEN CompleteFile(out) ELSE NoFile

IdleRequest ==
    [pc |-> "idle", options |-> CHOOSE o \in Options : TRUE, key |-> << >>,
     status |-> "none", body |-> NoFile]

IdleWorker == [pc |-> "tick", queue |-> << >>, format |-> "none",
               key |-> << >>, last |-> "none"]

\* ------------------------------------------------------------ regrade (db.rs)
ImageIds == 1..NumImages

\* Option<T>
None == [some |-> FALSE, value |-> << >>]
Some(x) == [some |-> TRUE, value |-> x]

\* text is a sequence of words; the project and target tables
ProjectIds == {1, 2}
project_name == [p \in ProjectIds |-> IF p = 1 THEN <<"m", "a">> ELSE <<"m", "b">>]
target_name == [t \in ProjectIds |-> IF t = 1 THEN <<"n", "a">> ELSE <<"n", "b">>]

\* GradingStatus: 0 Pending, 1 Accepted, 2 Rejected
GradingStatuses == {0, 1, 2}
RejectReasons == {None, Some(<<"Manual", "rejection">>), Some(<<"HFR">>)}
AcquiredDates == {1, 2}

\* the rows an acquiredimage table can hold (image i of target t belongs to
\* project t)
Rows ==
    {[gradingStatus |-> g, rejectreason |-> r, acquireddate |-> d,
      projectId |-> p, targetId |-> p] :
        g \in GradingStatuses, r \in RejectReasons, d \in AcquiredDates,
        p \in ProjectIds}

\* the arguments of a regrade call
RegradeArgs ==
    [mode : {"automatic", "full"}, date_cutoff : {2},
     project_filter : {None, Some(<<"a">>)},
     target_filter : {None, Some(<<"n">>)}]

\* SQL truth values: "T", "F" and "N" (NULL)
Bool3(b) == IF b THEN "T" ELSE "F"
Not3(v) == CASE v = "T" -> "F" [] v = "F" -> "T" [] OTHER -> "N"
Or3(a, b) ==
    IF a = "T" \/ b = "T" THEN "T" ELSE IF a = "N" \/ b = "N" THEN "N" ELSE "F"
And3(a, b) ==
    IF a = "F" \/ b = "F" THEN "F" ELSE IF a = "N" \/ b = "N" THEN "N" ELSE "T"

\* SQLite's LIKE folds the case of ASCII letters
Lower(w) == IF w = "Manual" THEN "manual" ELSE w

\* text LIKE '%pattern%': the pattern occurs in the text
Like(text, pattern) ==
    \E i \in 0..(Len(text) - Len(pattern)) :
        \A j \in 1..Len(pattern) : Lower(text[i + j]) = Lower(pattern[j])

\* the same on a nullable column
Like3(column, pattern) ==
    IF column.some THEN Bool3(Like(column.value, pattern)) ELSE "N"

\* "projectId IN (SELECT Id FROM project WHERE name LIKE ?)", and the same
\* for the target, for the filters that are given
filter_clause(row, args) ==
    And3(IF args.project_filter.some
         THEN Bool3(\E p \in ProjectIds :
                       /\ p = row.projectId
                       /\ Like(project_name[p], args.project_filter.value))
         ELSE "T",
         IF args.target_filter.some
         THEN Bool3(\E t \in ProjectIds :
                       /\ t = row.targetId
                       /\ Like(target_name[t], args.target_filter.value))
         ELSE "T")

\* "(gradingStatus != 2 OR rejectreason NOT LIKE '%Manual%')" in automatic
\* mode
mode_clause(row, args) ==
    IF args.mode = "automatic"
    THEN Or3(Bool3(row.gradingStatus # 2),
             Not3(Like3(row.rejectreason, <<"Manual">>)))
    ELSE "T"

\* the WHERE clause of reset_grading_status
reset_where(row, args) ==
    And3(Bool3(row.acquireddate >= args.date_cutoff),
         And3(filter_clause(row, args), mode_clause(row, args)))

\* the WHERE clause of count_images_to_reset
count_where(row, args) ==
    And3(reset_where(row, args), Bool3(row.gradingStatus # 0))

\* Database::reset_grading_status: the table after the UPDATE and the number
\* of rows it changed (every row the WHERE clause selects)
reset_grading_status(table, args) ==
    [table |-> [i \in DOMAIN table |->
                   IF reset_where(table[i], args) = "T"
                   THEN [table[i] EXCEPT !.gradingStatus = 0, !.rejectreason = None]
                   ELSE table[i]],
     count |-> Cardinality({i \in DOMAIN table : reset_where(table[i], args) = "T"})]

\* Database::count_images_to_reset
count_images_to_reset(table, args) ==
    Cardinality({i \in DOMAIN table : count_where(table[i], args) = "T"})

IdleRegrade ==
    [pc |-> "idle", args |-> CHOOSE a \in RegradeArgs : TRUE, count |-> 0, updated |-> 0]

\* ---------------------------------------------------------- request boundary
\* the strings a client can send for an enum-valued parameter; the last of
\* each set is not a value of the enum
StatusStrings == {"pending", "accepted", "rejected", "archived"}
SizeStrings == {"screen", "large", "original", "huge"}
PsfTypeStrings == {"moffat", "gaussian", "lorentz"}

KnownValues(endpoint) ==
    CASE endpoint \in {"get_images", "update_image_grade"} ->
            {"pending", "accepted", "rejected"}
      [] endpoint = "get_image_preview" -> {"screen", "large", "original"}
      [] endpoint = "get_psf_visualization" -> {"moffat", "gaussian"}
      [] OTHER -> {}

\* the match on the status string in get_images and update_image_grade: the
\* GradingStatus, or None for any other string
parse_status(str) ==
    CASE str = "pending" -> Some(0)
      [] str = "accepted" -> Some(1)
      [] str = "rejected" -> Some(2)
      [] OTHER -> None

\* psf_type_str.parse(): FromStr of PSFType
parse_psf_type(str) ==
    CASE str = "moffat" -> Some("Moffat4")
      [] str = "gaussian" -> Some("Gaussian")
      [] OTHER -> None

\* Option::unwrap_or
unwrap_or(option, default) == IF option.some THEN option.value ELSE default

\* Database::query_images with a status filter only: the Ids selected
query_images(table, status_filter) ==
    {i \in DOMAIN table :
        status_filter.some => table[i].gradingStatus = status_filter.value}

\* Database::update_grading_status
update_grading_status(table, image_id, status, reject_reason) ==
    [table EXCEPT ![image_id] =
        [@ EXCEPT !.gradingStatus = status, !.rejectreason = reject_reason]]

\* the rows of the image table at the request boundary (one project, one date)
BoundaryRows == {row \in Rows : row.projectId = 1 /\ row.acquireddate = 2}

IdleApi ==
    [endpoint |-> "none", value |-> None, code |-> "none",
     listed |-> {}, used |-> << >>]

\* -------------------------------------------------------- sequence analysis
\* SequenceAnalyzerConfig: the session gap in minutes (the default is 60; one
\* minute keeps the timestamps of the model small)
session_gap_minutes == 1
gap_seconds == session_gap_minutes * 60

\* ImageMetrics with no metric
ImageMetrics_at(image_id, timestamp) ==
    [image_id |-> image_id, timestamp |-> timestamp,
     star_count |-> None, hfr |-> None, eccentricity |-> None,
     snr |-> None, background |-> None]

\* the timestamps an image can carry: absent, on both sides of the gap and
\* exactly at it
Timestamps == {None, Some(0), Some(60), Some(61), Some(200)}

\* img.timestamp.unwrap_or(0)
ts(img) == unwrap_or(img.timestamp, 0)

\* sorted.sort_by_key(|img| img.timestamp.unwrap_or(0)): a stable sort
RECURSIVE InsertByKey(_, _)
InsertByKey(sorted, img) ==
    IF sorted = << >> THEN <<img>>
    ELSE IF ts(sorted[Len(sorted)]) <= ts(img)
         THEN Append(sorted, img)
         ELSE Append(InsertByKey(SubSeq(sorted, 1, Len(sorted) - 1), img),
                     sorted[Len(sorted)])

RECURSIVE sort_by_key(_)
sort_by_key(imgs) ==
    IF imgs = << >> THEN << >>
    ELSE InsertByKey(sort_by_key(SubSeq(imgs, 1, Len(imgs) - 1)), imgs[Len(imgs)])

\* "if curr_ts - prev_ts > gap_seconds": the image opens a new session
opens_session_at_gap(prev_ts, curr_ts) == curr_ts - prev_ts >= gap_seconds

opens_session(prev_ts, curr_ts) == curr_ts - prev_ts > gap_seconds

\* the loop of split_into_sequences over sorted[i..], with the sequences
\* closed so far and the current one
RECURSIVE SplitLoop(_, _, _, _)
SplitLoop(sorted, i, sequences, current_seq) ==
    IF i > Len(sorted)
    THEN IF current_seq # << >> THEN Append(sequences, current_seq) ELSE sequences
    ELSE IF opens_session(ts(current_seq[Len(current_seq)]), ts(sorted[i]))
         THEN SplitLoop(sorted, i + 1, Append(sequences, current_seq), <<sorted[i]>>)
         ELSE SplitLoop(sorted, i + 1, sequences, Append(current_seq, sorted[i]))

\* SequenceAnalyzer::split_into_sequences
split_into_sequences(imgs) ==
    IF imgs = << >> THEN << >>
    ELSE LET sorted == sort_by_key(imgs)
         IN  SplitLoop(sorted, 2, << >>, <<sorted[1]>>)

\* ---- scoring. An f64 is modelled in fixed point: a score, a normalized
\* metric, a fraction or a weight w stands as the integer w * 1000, a raw
\* metric as an integer in the metric's own unit.
Scale == 1000

\* SequenceAnalyzerConfig::default
min_sequence_length == 3
ewma_alpha == 300
star_drop_threshold == 250
bg_rise_threshold == 100
hfr_rise_threshold == 150
sudden_change_rate == 150

\* QualityWeights::default and TemporalWeights::default
quality_weights ==
    [star_count |-> 300, hfr |-> 250, eccentricity |-> 100, snr |-> 250,
     background |-> 100]
temporal_weights == [star_count |-> 400, background |-> 250, hfr |-> 200, snr |-> 150]

Metrics == <<"star_count", "hfr", "eccentricity", "snr", "background">>
HigherBetter == {"star_count", "snr"}

Max(a, b) == IF a >= b THEN a ELSE b
Min(a, b) == IF a <= b THEN a ELSE b
Abs(a) == IF a >= 0 THEN a ELSE 0 - a

\* f64::clamp(0.0, 1.0)
clamp(x) == Max(0, Min(Scale, x))

\* the quotient a / b as a fraction in fixed point
Fraction(a, b) == (a * Scale) \div b

\* filter_map over a sequence of Option values: the values that are present
RECURSIVE filter_map(_)
filter_map(values) ==
    IF values = << >> THEN << >>
    ELSE IF values[1].some
         THEN <<values[1].value>> \o filter_map(Tail(values))
         ELSE filter_map(Tail(values))

\* sort_by(partial_cmp) on numbers
RECURSIVE Insert(_, _)
Insert(sorted, x) ==
    IF sorted = << >> THEN <<x>>
    ELSE IF sorted[Len(sorted)] <= x
         THEN Append(sorted, x)
         ELSE Append(Insert(SubSeq(sorted, 1, Len(sorted) - 1), x), sorted[Len(sorted)])

RECURSIVE Sorted(_)
Sorted(values) ==
    IF values = << >> THEN << >>
    ELSE Insert(Sorted(SubSeq(values, 1, Len(values) - 1)), values[Len(values)])

\* the metric m of every image
column(imgs, m) == [i \in 1..Len(imgs) |-> imgs[i][m]]

\* percentile_bounds: the values at index floor(n * 0.05) and
\* ceil(n * 0.95), each capped at n - 1 (indices from 0)
percentile_bounds(values) ==
    IF values = << >> THEN <<0, 0>>
    ELSE LET sorted == Sorted(values)
             n == Len(sorted)
             p5_idx == Min((n * 5) \div 100, n - 1)
             p95_idx == Min((n * 95 + 99) \div 100, n - 1)
         IN  <<sorted[p5_idx + 1], sorted[p95_idx + 1]>>

\* a normalization that scores a missing value as 0
normalize_metric_fills_missing(values, higher_better) ==
    LET valid == filter_map(values)
        bounds == percentile_bounds(valid)
        p5 == bounds[1]
        p95 == bounds[2]
    IN  IF valid = << >> THEN [i \in 1..Len(values) |-> None]
        ELSE IF p95 - p5 = 0
        THEN [i \in 1..Len(values) |-> Some(IF values[i].some THEN Scale ELSE 0)]
        ELSE [i \in 1..Len(values) |->
                 Some(IF values[i].some
                      THEN clamp(IF higher_better
                                 THEN Fraction(values[i].value - p5, p95 - p5)
                                 ELSE Fraction(p95 - values[i].value, p95 - p5))
                      ELSE 0)]

\* normalize_metric_higher_better / normalize_metric_lower_better
normalize_metric(values, higher_better) ==
    LET valid == filter_map(values)
        bounds == percentile_bounds(valid)
        p5 == bounds[1]
        p95 == bounds[2]
    IN  IF valid = << >> THEN [i \in 1..Len(values) |-> None]
        ELSE IF p95 - p5 = 0
        THEN [i \in 1..Len(values) |-> IF values[i].some THEN Some(Scale) ELSE None]
        ELSE [i \in 1..Len(values) |->
                 IF values[i].some
                 THEN Some(clamp(IF higher_better
                                 THEN Fraction(values[i].value - p5, p95 - p5)
                                 ELSE Fraction(p95 - values[i].value, p95 - p5)))
                 ELSE None]

\* the deviation without its floor at zero
deviation_signed(value, baseline, drop_is_bad) ==
    IF value.some /\ baseline.some
    THEN IF baseline.value # 0
         THEN IF drop_is_bad
              THEN Fraction(baseline.value - value.value, baseline.value)
              ELSE Fraction(value.value - baseline.value, baseline.value)
         ELSE 0
    ELSE 0

\* compute_temporal_scores: the deviation of a value from its baseline, a
\* drop or a rise counting as bad
deviation(value, baseline, drop_is_bad) ==
    IF value.some /\ baseline.some
    THEN IF baseline.value # 0
         THEN Max(0, IF drop_is_bad
                     THEN Fraction(baseline.value - value.value, baseline.value)
                     ELSE Fraction(value.value - baseline.value, baseline.value))
         ELSE 0
    ELSE 0

\* compute_temporal_scores: the EWMA baseline after a value
ewma(value, baseline) ==
    IF value.some
    THEN IF baseline.some
         THEN Some((ewma_alpha * value.value + (Scale - ewma_alpha) * baseline.value)
                      \div Scale)
         ELSE value
    ELSE baseline

\* the baselines with the current image already folded in
baseline_updated_first(img, bl) ==
    [star_count |-> ewma(img.star_count, bl.star_count),
     background |-> ewma(img.background, bl.background),
     hfr |-> ewma(img.hfr, bl.hfr),
     snr |-> ewma(img.snr, bl.snr)]

\* compute_temporal_scores: the baselines an image is measured against are
\* those left by the images before it (the EWMA update comes after)
baseline_at_measure(img, bl) == bl

\* compute_temporal_scores: the loop over images[i..], with the baselines and
\* the scores so far
RECURSIVE TemporalLoop(_, _, _, _)
TemporalLoop(imgs, i, bl, scores) ==
    IF i > Len(imgs) THEN scores
    ELSE LET img == imgs[i]
             at == baseline_at_measure(img, bl)
             score ==
                (temporal_weights.star_count * deviation(img.star_count, at.star_count, TRUE)
                 + temporal_weights.background * deviation(img.background, at.background, FALSE)
                 + temporal_weights.hfr * deviation(img.hfr, at.hfr, FALSE)
                 + temporal_weights.snr * deviation(img.snr, at.snr, TRUE)) \div Scale
         IN  TemporalLoop(imgs, i + 1,
                          [star_count |-> ewma(img.star_count, bl.star_count),
                           background |-> ewma(img.background, bl.background),
                           hfr |-> ewma(img.hfr, bl.hfr),
                           snr |-> ewma(img.snr, bl.snr)],
                          Append(scores, score))

compute_temporal_scores(imgs) ==
    TemporalLoop(imgs, 1,
                 [star_count |-> None, background |-> None, hfr |-> None, snr |-> None],
                 << >>)

\* weighted_sum_available over the five normalized metrics: <<sum, total_weight>>
RECURSIVE weighted_sum_available(_, _)
weighted_sum_available(normalized, k) ==
    IF k > Len(Metrics) THEN <<0, 0>>
    ELSE LET rest == weighted_sum_available(normalized, k + 1)
             m == Metrics[k]
         IN  IF normalized[m].some
             THEN <<rest[1] + normalized[m].value * quality_weights[m],
                    rest[2] + quality_weights[m]>>
             ELSE rest

\* score_sequence: the final score of an image from its normalized metrics
\* and its temporal score
composite_score(normalized) ==
    LET sums == weighted_sum_available(normalized, 1)
    IN  IF sums[2] > 0 THEN sums[1] \div sums[2] ELSE Scale

\* the final score with a penalty that is not capped
final_score_uncapped(normalized, temporal) ==
    clamp((composite_score(normalized) * (Scale - temporal)) \div Scale)

final_score(normalized, temporal) ==
    LET penalty == Scale - Min(temporal, 500)
    IN  clamp((composite_score(normalized) * penalty) \div Scale)

\* local_baseline: the median of the metric over up to 5 preceding frames, or
\* the current value when none of them carries it
local_baseline(imgs, i, m) ==
    LET start == Max(1, i - 5)
        vals == filter_map([j \in 1..(i - start) |-> imgs[start + j - 1][m]])
    IN  IF vals = << >> THEN unwrap_or(imgs[i][m], 0)
        ELSE Sorted(vals)[Len(vals) \div 2 + 1]

\* compute_fractional_drop
compute_fractional_drop(imgs, i, m) ==
    IF ~imgs[i][m].some THEN 0
    ELSE LET baseline == local_baseline(imgs, i, m)
         IN  IF baseline = 0 THEN 0
             ELSE Max(0, Fraction(baseline - imgs[i][m].value, baseline))

\* compute_fractional_rise
compute_fractional_rise(imgs, i, m) ==
    IF ~imgs[i][m].some THEN 0
    ELSE LET baseline == local_baseline(imgs, i, m)
         IN  IF baseline = 0 THEN 0
             ELSE Max(0, Fraction(imgs[i][m].value - baseline, baseline))

\* is_gradual_change over the last `window` frames (i counts from 1)
is_gradual_change(imgs, i, m, window) ==
    IF i - 1 < window THEN FALSE
    ELSE LET small == {j \in (i - window + 1)..i :
                          /\ imgs[j - 1][m].some
                          /\ imgs[j - 1][m].value > 0
                          /\ imgs[j][m].some
                          /\ Fraction(Abs(imgs[j][m].value - imgs[j - 1][m].value),
                                      imgs[j - 1][m].value) < sudden_change_rate}
         IN  Cardinality(small) >= window - 1

\* classify_issues: the rule cascade for one image whose score is below 0.7
classify(score, star_drop, bg_rise, hfr_rise, ecc_rise, is_gradual_hfr, is_gradual_bg) ==
    LET star_stable == star_drop < star_drop_threshold
        bg_stable == bg_rise < bg_rise_threshold
        ecc_stable == ecc_rise < 150
    IN  IF star_drop > star_drop_threshold /\ bg_rise > bg_rise_threshold
        THEN "LikelyClouds"
        ELSE IF star_drop > star_drop_threshold /\ bg_stable
        THEN "PossibleObstruction"
        ELSE IF hfr_rise > hfr_rise_threshold /\ is_gradual_hfr /\ ecc_stable
        THEN "FocusDrift"
        ELSE IF ecc_rise > 150 /\ star_stable
        THEN "TrackingError"
        ELSE IF /\ hfr_rise > hfr_rise_threshold
                /\ star_drop > star_drop_threshold
                /\ ~ecc_stable
        THEN "WindShake"
        ELSE IF bg_rise > bg_rise_threshold /\ is_gradual_bg /\ star_stable
        THEN "SkyBrightening"
        ELSE IF score < 500
        THEN "UnknownDegradation"
        ELSE "none"

\* classify_issues: the category of image i
category_of(results, imgs, i) ==
    IF Len(imgs) < 2 \/ results[i].quality_score >= 700 THEN "none"
    ELSE classify(results[i].quality_score,
                  compute_fractional_drop(imgs, i, "star_count"),
                  compute_fractional_rise(imgs, i, "background"),
                  compute_fractional_rise(imgs, i, "hfr"),
                  compute_fractional_rise(imgs, i, "eccentricity"),
                  is_gradual_change(imgs, i, "hfr", 3),
                  is_gradual_change(imgs, i, "background", 3))

classify_issues(results, imgs) ==
    [i \in 1..Len(results) |->
        [results[i] EXCEPT !.category = category_of(results, imgs, i)]]

\* build_summary: the bucket of a score
bucket(quality_score) ==
    IF quality_score >= 900 THEN "excellent"
    ELSE IF quality_score >= 700 THEN "good"
    ELSE IF quality_score >= 500 THEN "fair"
    ELSE IF quality_score >= 300 THEN "poor"
    ELSE "bad"

CountOf(results, name) ==
    Cardinality({i \in 1..Len(results) : bucket(results[i].quality_score) = name})

build_summary(results) ==
    [excellent_count |-> CountOf(results, "excellent"),
     good_count |-> CountOf(results, "good"),
     fair_count |-> CountOf(results, "fair"),
     poor_count |-> CountOf(results, "poor"),
     bad_count |-> CountOf(results, "bad"),
     cloud_events_detected |->
        Cardinality({i \in 1..Len(results) : results[i].category = "LikelyClouds"}),
     focus_drift_detected |->
        \E i \in 1..Len(results) : results[i].category = "FocusDrift",
     tracking_issues_detected |->
        \E i \in 1..Len(results) : results[i].category = "TrackingError"]

\* best_value: the maximum or the minimum of the values that are present
best_value(imgs, m, higher_better) ==
    LET vals == filter_map(column(imgs, m))
    IN  IF vals = << >> THEN None
        ELSE IF higher_better
        THEN Some(Sorted(vals)[Len(vals)])
        ELSE Some(Sorted(vals)[1])

\* score_sequence for a sequence shorter than min_sequence_length
short_sequence(imgs) ==
    [image_count |-> Len(imgs),
     reference_values |-> [m \in {Metrics[k] : k \in DOMAIN Metrics} |-> None],
     images |-> [i \in 1..Len(imgs) |->
                    [image_id |-> imgs[i].image_id,
                     quality_score |-> Scale,
                     temporal_anomaly_score |-> 0,
                     category |-> "none",
                     normalized_metrics |->
                        [m \in {Metrics[k] : k \in DOMAIN Metrics} |-> Some(Scale)]]],
     summary |-> [excellent_count |-> Len(imgs), good_count |-> 0, fair_count |-> 0,
                  poor_count |-> 0, bad_count |-> 0, cloud_events_detected |-> 0,
                  focus_drift_detected |-> FALSE, tracking_issues_detected |-> FALSE]]

\* score_sequence for a sequence of min_sequence_length images or more
full_sequence(imgs) ==
    LET norm == [m \in {Metrics[k] : k \in DOMAIN Metrics} |->
                    normalize_metric(column(imgs, m), m \in HigherBetter)]
        temporal_scores == compute_temporal_scores(imgs)
        scored == [i \in 1..Len(imgs) |->
                     LET normalized ==
                           [m \in {Metrics[k] : k \in DOMAIN Metrics} |-> norm[m][i]]
                     IN  [image_id |-> imgs[i].image_id,
                          quality_score |-> final_score(normalized, temporal_scores[i]),
                          temporal_anomaly_score |-> temporal_scores[i],
                          category |-> "none",
                          normalized_metrics |-> normalized]]
        results == classify_issues(scored, imgs)
    IN  [image_count |-> Len(imgs),
         reference_values |->
            [m \in {Metrics[k] : k \in DOMAIN Metrics} |->
                best_value(imgs, m, m \in HigherBetter)],
         images |-> results,
         summary |-> build_summary(results)]

\* score_sequence with the length test off by one
score_sequence_off_by_one(imgs) ==
    IF Len(imgs) < min_sequence_length - 1 THEN short_sequence(imgs)
    ELSE full_sequence(imgs)

\* SequenceAnalyzer::score_sequence
score_sequence(imgs) ==
    IF Len(imgs) < min_sequence_length THEN short_sequence(imgs)
    ELSE full_sequence(imgs)

\* the frames an analyzed list is made of: star_count, hfr (1/100 px),
\* eccentricity (1/100), snr, background, any of them absent
Frame(star_count, hfr, eccentricity, snr, background) ==
    [star_count |-> star_count, hfr |-> hfr, eccentricity |-> eccentricity,
     snr |-> snr, background |-> background]

Frames ==
    {Frame(Some(100), Some(200), Some(30), Some(50), Some(100)),
     Frame(Some(10), Some(200), Some(30), Some(20), Some(150)),
     Frame(Some(40), Some(200), Some(30), Some(20), Some(110)),
     Frame(Some(100), Some(260), Some(30), Some(20), Some(100)),
     Frame(Some(100), Some(200), Some(60), Some(20), Some(100)),
     Frame(Some(100), None, None, None, Some(100))}

\* the acquisition times of a list: one night, or a first image alone in a
\* night of its own, or two images in the first night
Schedules == {"one", "first apart", "two apart"}
scheduled(schedule, i) ==
    CASE schedule = "one" -> Some(i * 10)
      [] schedule = "first apart" -> Some(IF i = 1 THEN 0 ELSE 1000 + i * 10)
      [] OTHER -> Some(IF i <= 2 THEN i * 10 ELSE 1000 + i * 10)

ImageMetrics_of(image_id, timestamp, frame) ==
    [image_id |-> image_id, timestamp |-> timestamp,
     star_count |-> frame.star_count, hfr |-> frame.hfr,
     eccentricity |-> frame.eccentricity, snr |-> frame.snr,
     background |-> frame.background]

\* the rule table of the categorical classification, first match wins
rule_table(score, star_drop, bg_rise, hfr_rise, ecc_rise, gradual_hfr, gradual_bg) ==
    IF star_drop > 250 /\ bg_rise > 100 THEN "LikelyClouds"
    ELSE IF star_drop > 250 /\ bg_rise <= 100 THEN "PossibleObstruction"
    ELSE IF hfr_rise > 150 /\ gradual_hfr /\ ecc_rise < 150 THEN "FocusDrift"
    ELSE IF ecc_rise > 150 /\ star_drop < 250 THEN "TrackingError"
    ELSE IF hfr_rise > 150 /\ star_drop > 250 /\ ecc_rise >= 150 THEN "WindShake"
    ELSE IF bg_rise > 100 /\ gradual_bg /\ star_drop < 250 THEN "SkyBrightening"
    ELSE IF score < 500 THEN "UnknownDegradation"
    ELSE "none"

IdleAnalysis == [pc |-> "input", sequences |-> << >>, scored |-> << >>]

\* ------------------------------------------------ directory tree scan (data)
\* A path is the sequence of its components, the scanned root first.
\* scan_directory: the directory names that are not entered
skipped_dirs == {"DARK", "FLAT", "BIAS", ".git", "node_modules", "target", ".cache"}

RootNames == {"images", "target"}
DirNames == skipped_dirs \cup {"lights"}

\* the directories below the root: every name at depth 1, every name inside
\* lights, and lights inside every skipped directory
Directories ==
    {<< >>} \cup {<<n>> : n \in DirNames}
            \cup {<<"lights", n>> : n \in DirNames}
            \cup {<<n, "lights">> : n \in skipped_dirs}

\* file names; the second one is not valid UTF-8
FileNames == {"a.fits", "b\\377.fits"}

\* OsStr::to_str
to_str(name) == IF name = "b\\377.fits" THEN None ELSE Some(name)

\* Path::file_name and Path::parent
file_name(path) == path[Len(path)]
parent(path) == SubSeq(path, 1, Len(path) - 1)

\* the directories that may refuse fs::read_dir
Unreadable == {<<"lights">>, <<"lights", "lights">>}

\* the subdirectories of dir on a volume (a directory exists where a file
\* lies below it)
subdirs(vol, dir) ==
    {SubSeq(p, 1, Len(dir) + 1) :
        p \in {q \in vol.files : /\ Len(q) > Len(dir) + 1
                                  /\ SubSeq(q, 1, Len(dir)) = dir}}

\* DirectoryTree::scan_directory: the files added to file_map and the
\* directories added to dir_map by the scan of dir
RECURSIVE scan_directory(_, _)
scan_directory(vol, dir) ==
    IF file_name(dir) \in skipped_dirs \/ dir \in vol.unreadable
    THEN [files |-> {}, dirs |-> {}]
    ELSE LET inner == {scan_directory(vol, d) : d \in subdirs(vol, dir)}
         IN  [files |-> {p \in vol.files : parent(p) = dir /\ to_str(file_name(p)).some}
                           \cup UNION {r.files : r \in inner},
              dirs |-> {dir} \cup UNION {r.dirs : r \in inner}]

NoBuild == [some |-> FALSE, file_map |-> << >>, dir_map |-> << >>]

\* DirectoryTree::build: file_map by file name and dir_map by directory (the
\* order of the paths of one name is the order of read_dir and is left out)
build(vol) ==
    LET scan == scan_directory(vol, <<vol.root>>)
    IN  [some |-> TRUE,
         file_map |-> [n \in {file_name(p) : p \in scan.files} |->
                          {p \in scan.files : file_name(p) = n}],
         dir_map |-> [d \in scan.dirs |->
                         {p \in vol.files : parent(p) = d} \cup subdirs(vol, d)]]

\* --------------------------------------------------- file checks (data)
\* The image records of one project, in the order the queries return them.
\* Each record names its target and says where its file stands:
\*   "unnamed"   the metadata carries no FileName
\*   "missing"   the basename is not in the index and no file is on disk
\*   "indexed"   the basename is in the index and its first path exists
\*   "stale"     the basename is in the index and its first path is gone
\*   "template"  the file lies at a template path and is not in the index
TargetIds == {1, 2}
FileStates == {"unnamed", "missing", "indexed", "stale", "template"}
ImageRows == [target_id : TargetIds, file : FileStates]

\* metadata["FileName"].as_str() is Some
has_filename(image) == image.file # "unnamed"

\* directory_tree.find_file_first(filename).is_some()
in_index(image) == image.file \in {"indexed", "stale"}

\* find_fits_file(..).is_ok(): a template path exists, or the first indexed
\* path exists
find_fits_file_is_ok(image) == image.file \in {"template", "indexed"}

\* the filter on img.target_id
of_target(rows, target_id) == SelectSeq(rows, LAMBDA image : image.target_id = target_id)

\* get_projects_with_images: the project, when it has at least one image
projects_with_images(rows) == IF rows = << >> THEN {} ELSE {1}

\* get_targets_with_images: the targets that have at least one image
targets_with_images(rows) == {rows[i].target_id : i \in DOMAIN rows}

\* check_project_files_with_details / check_target_files_with_details on the
\* images of the entity: <<has_any_files, files_found, files_missing>>
check_files_with_details(all_images) ==
    LET found == {i \in DOMAIN all_images :
                     has_filename(all_images[i]) /\ in_index(all_images[i])}
        missing == {i \in DOMAIN all_images :
                       has_filename(all_images[i]) /\ ~in_index(all_images[i])}
    IN  <<found # {}, Cardinality(found), Cardinality(missing)>>

\* handlers::check_project_files_via_cache (the early exit at five hits
\* returns true, as the end of the loop does)
check_project_files_via_cache(all_images) ==
    Cardinality({i \in DOMAIN all_images :
                    has_filename(all_images[i]) /\ in_index(all_images[i])}) > 0

\* handlers::check_target_has_files: the first three images of the target
check_target_has_files(rows, target_id) ==
    LET mine == of_target(rows, target_id)
        images_to_check == SubSeq(mine, 1, Min(3, Len(mine)))
    IN  \E i \in DOMAIN images_to_check :
            has_filename(images_to_check[i]) /\ find_fits_file_is_ok(images_to_check[i])

\* RefreshProgress::complete_project and RefreshProgress::complete_target
\* on the two file counters
complete_entity(progress, result) ==
    IF result[1]
    THEN [files_found |-> progress.files_found + result[2],
          files_missing |-> progress.files_missing + result[3]]
    ELSE progress

\* refresh_cache_unified_internal: complete_target for every target of the
\* project, in the order given
RECURSIVE complete_targets(_, _, _)
complete_targets(progress, rows, targets) ==
    IF targets = << >> THEN progress
    ELSE complete_targets(
            complete_entity(progress, check_files_with_details(of_target(rows, targets[1]))),
            rows, Tail(targets))

IdleChecks ==
    [by |-> "none", projects_with_files |-> << >>, targets_with_files |-> << >>,
     files_found |-> 0, files_missing |-> 0]

\* --------------------------------------------------------------------- state
VARIABLES
    file_check_cache,       \* AppState.file_check_cache (the value behind the RwLock)
    directory_tree_cache,   \* AppState.directory_tree_cache (Option<DirectoryTree>)
    disk,                   \* basenames present under the image roots (any set; it
                            \* does not change during a behaviour of Spec)
    tasks,                  \* the spawned refresh tasks, by spawn order
    spawned,                \* number of refresh tasks spawned so far
    callers,                \* API calls / request handlers, in flight or returned
    calls                   \* number of API calls and requests made so far

\* the path resolver (handlers::find_fits_file), modelled with full paths
VARIABLES
    fs,                     \* the paths that exist on disk now, among the paths
                            \* whose basename is the requested image's FileName
    index_slot,             \* AppState.directory_tree_cache as the resolver sees
                            \* it: the path list cached under that basename
    resolve                 \* the find_fits_file call: position, locals, result

\* the artifact cache (previews and annotated images) and its two producers
VARIABLES
    cache_files,            \* the files of the cache directory, by cache key
    request,                \* the on-demand request in flight, or its response
    pregen,                 \* background_pregeneration_task
    shutdown,               \* the graceful-shutdown signal has been sent
    setup                   \* the enabled formats and the size of the image

\* the image table and the regrade call (src/db.rs)
VARIABLES
    acquiredimage,          \* the acquiredimage table, by Id
    regrade                 \* the regrade call: arguments and both results

\* the request boundary: the enum-valued parameter of a request and the answer
VARIABLES
    api                     \* the last request: endpoint, value, answer

\* the sequence analyzer (src/sequence_analysis.rs)
VARIABLES
    images,                 \* the ImageMetrics handed to the analyzer
    analysis                \* the analyzer call: position, sequences, results

\* the directory tree scan (src/directory_tree.rs)
VARIABLES
    volume,                 \* the files below the scanned root, and the
                            \* directories that cannot be read
    tree_build              \* the DirectoryTree that build returned, if any

\* the file checks of the refreshes (server/state.rs, server/handlers.rs)
VARIABLES
    image_rows,             \* the acquiredimage rows of the project
    file_checks             \* what the last refresh wrote: the has_files maps
                            \* and the two file counters

\* the unified refresh seen through its progress record and its tree snapshots
VARIABLES
    refresh_progress,       \* FileCheckCache.refresh_progress
    refreshing,             \* FileCheckCache.refresh_in_progress
    refreshers,             \* the spawned refresh tasks: position and locals
    tree_slot,              \* AppState.directory_tree_cache, each tree with the
                            \* number of the walk that built it
    builds,                 \* directory walks started so far
    scan_catalog,           \* the projects with images: how many targets
                            \* with images each has (at least one)
    forces                  \* force_directory_tree_refresh calls so far

\* one cycle of the pre-generation worker
VARIABLES
    pregeneration_config,   \* AppState.pregeneration_config: the enabled formats
    cycle                   \* background_pregeneration_task: position and counters

cache_vars == <<file_check_cache, directory_tree_cache, disk, tasks, spawned, callers, calls>>
resolver_vars == <<fs, index_slot, resolve>>

artifact_vars == <<cache_files, request, pregen, shutdown, setup>>
regrade_vars == <<acquiredimage, regrade>>
boundary_vars == <<api>>
analyzer_vars == <<images, analysis>>
tree_vars == <<volume, tree_build>>
catalog_vars == <<image_rows, file_checks>>

progress_vars == <<refresh_progress, refreshing, refreshers, tree_slot, builds, scan_catalog, forces>>

cycle_vars == <<pregeneration_config, cycle>>

\* what the cache and freshness model leaves alone
outside == <<resolver_vars, artifact_vars, regrade_vars, boundary_vars, analyzer_vars, tree_vars, catalog_vars, progress_vars, cycle_vars>>

vars == <<cache_vars, resolver_vars, artifact_vars, regrade_vars, boundary_vars, analyzer_vars, tree_vars, catalog_vars, progress_vars, cycle_vars>>

\* ------------------------------------------------------------ RefreshProgress
MaxProjects == 2
MaxTargets == 2
MaxRefreshes == 2
MaxForces == 1
MaxBuilds == 2

Refreshers == 1..MaxRefreshes

\* impl Default for RefreshProgress (the counters the percentage reads)
RefreshProgress_default ==
    [stage |-> "Idle",
     directories_total |-> 0, directories_processed |-> 0,
     projects_total |-> 0, projects_processed |-> 0,
     targets_total |-> 0, targets_processed |-> 0]

\* RefreshProgress::start_refresh
start_refresh(p) == [RefreshProgress_default EXCEPT !.stage = "InitializingDirectoryTree"]

\* RefreshProgress::set_stage
set_stage(p, stage) == [p EXCEPT !.stage = stage]

\* RefreshProgress::set_directories_info
set_directories_info(p, total) == [p EXCEPT !.directories_total = total, !.directories_processed = 0]

\* RefreshProgress::complete_directory
complete_directory(p) == [p EXCEPT !.directories_processed = @ + 1]

\* RefreshProgress::set_projects_info
set_projects_info(p, total) == [p EXCEPT !.projects_total = total, !.projects_processed = 0, !.stage = "ProcessingProjects"]

\* RefreshProgress::complete_project
complete_project(p) == [p EXCEPT !.projects_processed = @ + 1]

\* RefreshProgress::set_targets_info
set_targets_info(p, additional_targets) == [p EXCEPT !.targets_total = @ + additional_targets, !.stage = "ProcessingTargets"]

\* RefreshProgress::complete_target
complete_target(p) == [p EXCEPT !.targets_processed = @ + 1]

\* RefreshProgress::complete_refresh
complete_refresh(p) == [p EXCEPT !.stage = "Completed"]

\* processed / total * span, in thousandths of a percent
fraction_of(processed, total, span) == (processed * span * Scale) \div total

\* RefreshProgress::get_progress_percentage, in thousandths of a percent
get_progress_percentage(p) ==
    CASE p.stage = "Idle" -> 0
      [] p.stage = "InitializingDirectoryTree" ->
            IF p.directories_total > 0
            THEN 2 * Scale + fraction_of(p.directories_processed, p.directories_total, 8)
            ELSE 5 * Scale
      [] p.stage = "LoadingProjects" -> 10 * Scale
      [] p.stage = "ProcessingProjects" ->
            IF p.projects_total > 0
            THEN 15 * Scale + fraction_of(p.projects_processed, p.projects_total, 50)
            ELSE 15 * Scale
      [] p.stage = "ProcessingTargets" ->
            IF p.targets_total > 0
            THEN 65 * Scale + fraction_of(p.targets_processed, p.targets_total, 25)
            ELSE 65 * Scale
      [] p.stage = "UpdatingCache" -> 95 * Scale
      [] p.stage = "Completed" -> 100 * Scale

\* enum RefreshStage, in declaration order
RefreshStage == <<"Idle", "InitializingDirectoryTree", "LoadingProjects", "ProcessingProjects", "ProcessingTargets", "UpdatingCache", "Completed">>

StageRank(stage) == CHOOSE i \in DOMAIN RefreshStage : RefreshStage[i] = stage

\* a refresh task that has not been spawned
UnbornRefresher ==
    [pc |-> "unborn", building |-> 0, sent |-> 0, channel |-> << >>,
     pi |-> 0, tleft |-> 0, step1 |-> 0, used |-> {}, disturbed |-> FALSE]

EmptySlot == [some |-> FALSE, gen |-> 0, old |-> FALSE]

\* no refresh spawned, nothing in the tree slot
ProgressAtRest ==
    /\ refresh_progress = RefreshProgress_default
    /\ refreshing = FALSE
    /\ refreshers = [t \in Refreshers |-> UnbornRefresher]
    /\ tree_slot = EmptySlot
    /\ builds = 0
    /\ scan_catalog = << >>
    /\ forces = 0

\* ------------------------------------------------- the pre-generation cycle
MaxCycleImages == 2

\* the counters of one cycle of background_pregeneration_task
NoCounts == [processed_count |-> 0, generated_count |-> 0, skipped_count |-> 0, error_count |-> 0]

count_result_drops_errors(counts, result) ==
    CASE result = "Ok(true)" -> [counts EXCEPT !.generated_count = @ + 1]
      [] result = "Ok(false)" -> [counts EXCEPT !.skipped_count = @ + 1]
      [] result = "Err" -> counts

\* background_pregeneration_task: the match on the result of pregenerate_*
count_result(counts, result) ==
    CASE result = "Ok(true)" -> [counts EXCEPT !.generated_count = @ + 1]
      [] result = "Ok(false)" -> [counts EXCEPT !.skipped_count = @ + 1]
      [] result = "Err" -> [counts EXCEPT !.error_count = @ + 1]

\* the worker between two cycles
IdleCycle == [pc |-> "tick", images |-> 0, image |-> 0, format |-> 0, counts |-> NoCounts, attempts |-> << >>]

\* the worker waiting for its first tick, nothing enabled
CycleAtRest ==
    /\ pregeneration_config = {}
    /\ cycle = IdleCycle

\* no image rows and no refresh made
CatalogAtRest ==
    /\ image_rows = << >>
    /\ file_checks = IdleChecks

\* nothing to scan and no tree built
TreeAtRest ==
    /\ volume = [root |-> "images", files |-> {}, unreadable |-> {}]
    /\ tree_build = NoBuild

\* no analyzer call made
AnalyzerAtRest ==
    /\ images = << >>
    /\ analysis = IdleAnalysis

\* no request made at the boundary
BoundaryAtRest == api = IdleApi

\* the image table empty and no regrade call made
RegradeAtRest ==
    /\ acquiredimage = << >>
    /\ regrade = IdleRegrade

\* the artifact cache at rest, with every format enabled
ArtifactsAtRest ==
    /\ cache_files = [k \in Keys |-> NoFile]
    /\ request = IdleRequest
    /\ pregen = IdleWorker
    /\ shutdown = FALSE
    /\ setup = [enabled |-> {Formats[i] : i \in DOMAIN Formats}, image_dim |-> 1000]

IdleTask ==
    [pc |-> "unborn", failed |-> FALSE, building |-> NoTree,
     projects |-> << >>, tqueue |-> << >>,
     project_cache_updates |-> EmptyMap, target_cache_updates |-> EmptyMap]

\* a caller: the call it runs (op), where it is in it (pc), what
\* list_projects saw in its first read (saw_empty, and saw_status: the status
\* the cache had in that same read section), the locals of
\* refresh_project_cache (queue, cache_updates) and, once it has returned
\* (pc = "responded"), the status and the presence of data in its result
IdleCaller ==
    [op |-> "none", pc |-> "idle", saw_empty |-> FALSE, saw_status |-> "none",
     queue |-> << >>, cache_updates |-> EmptyMap,
     status |-> "none", data |-> FALSE]

Init ==
    /\ file_check_cache = FileCheckCache_new
    /\ directory_tree_cache = NoTree
    /\ disk \in SUBSET Files
    /\ tasks = [t \in Tasks |-> IdleTask]
    /\ spawned = 0
    /\ callers = [c \in Callers |-> IdleCaller]
    /\ calls = 0
    /\ CycleAtRest
    /\ ProgressAtRest
    /\ CatalogAtRest
    /\ TreeAtRest
    /\ AnalyzerAtRest
    /\ BoundaryAtRest
    /\ fs = {}
    /\ index_slot = NoIndex
    /\ resolve = IdleResolve
    /\ ArtifactsAtRest
    /\ RegradeAtRest

Running(t) == tasks[t].pc \notin {"unborn", "done"}


\* ------------------------------------------------- the singleton refresh task
SetTask(t, r) == tasks' = [tasks EXCEPT ![t] = r]

FailTask_goes_on_to_swap(t) == [tasks[t] EXCEPT !.failed = TRUE, !.pc = "swap"]

\* a `?` of refresh_cache_unified_internal returns Err to the spawned closure:
\* the rest of the function, the swap included, is not executed, and the
\* closure goes on to mark_refresh_completed.
FailTask(t) == [tasks[t] EXCEPT !.failed = TRUE, !.pc = "complete"]

\* refresh_cache_unified_internal: first progress section
TaskInit(t) ==
    /\ tasks[t].pc = "init"
    /\ file_check_cache' = [file_check_cache EXCEPT !.stage = "InitializingDirectoryTree"]
    /\ SetTask(t, [tasks[t] EXCEPT !.pc = "tree_check"])
    /\ UNCHANGED <<directory_tree_cache, disk, outside, spawned, callers, calls>>

\* refresh_directory_tree_with_progress: the freshness check
TaskTreeCheck(t) ==
    /\ tasks[t].pc = "tree_check"
    /\ IF IsFresh(directory_tree_cache)
       THEN SetTask(t, [tasks[t] EXCEPT !.pc = "load_stage"])
       ELSE SetTask(t, [tasks[t] EXCEPT !.pc = "tree_build",
                                        !.building = [NoTree EXCEPT !.some = TRUE]])
    /\ UNCHANGED <<file_check_cache, directory_tree_cache, disk, outside, spawned, callers, calls>>

BuildInSlot(slot, building) == building

\* refresh_directory_tree_with_progress: the tree under construction is a
\* local of the blocking task (tree_result); the slot is not touched while
\* the walk runs.
SlotDuringBuild(slot, building) == slot

\* refresh_directory_tree_with_progress: the blocking build, one root per
\* step; an Err of the build is logged by the caller and the refresh goes on.
TaskTreeBuild(t) ==
    /\ tasks[t].pc = "tree_build"
    /\ \E ok \in BOOLEAN :
         IF ok
         THEN LET b == ScanRoot(tasks[t].building, disk)
              IN /\ SetTask(t, [tasks[t] EXCEPT
                                  !.building = b,
                                  !.pc = IF b.roots_done >= NumRoots
                                         THEN "tree_store" ELSE "tree_build"])
                 /\ directory_tree_cache' = SlotDuringBuild(directory_tree_cache, b)
         ELSE /\ SetTask(t, [tasks[t] EXCEPT !.building = NoTree, !.pc = "load_stage"])
              /\ UNCHANGED directory_tree_cache
    /\ UNCHANGED <<file_check_cache, disk, outside, spawned, callers, calls>>

\* "*cache = Some(tree_result.clone())" (refresh_directory_tree_with_progress
\* and rebuild_directory_tree_internal)
StoreTree(slot, built) == built

\* refresh_directory_tree_with_progress: complete_directory and the store
TaskTreeStore(t) ==
    /\ tasks[t].pc = "tree_store"
    /\ directory_tree_cache' = StoreTree(directory_tree_cache, tasks[t].building)
    /\ SetTask(t, [tasks[t] EXCEPT !.building = NoTree, !.pc = "load_stage"])
    /\ UNCHANGED <<file_check_cache, disk, outside, spawned, callers, calls>>

\* refresh_cache_unified_internal: set_stage(LoadingProjects)
TaskLoadStage(t) ==
    /\ tasks[t].pc = "load_stage"
    /\ file_check_cache' = [file_check_cache EXCEPT !.stage = "LoadingProjects"]
    /\ SetTask(t, [tasks[t] EXCEPT !.pc = "load_projects"])
    /\ UNCHANGED <<directory_tree_cache, disk, outside, spawned, callers, calls>>

\* refresh_cache_unified_internal: get_projects_with_images()? and
\* set_projects_info
TaskLoadProjects(t) ==
    /\ tasks[t].pc = "load_projects"
    /\ \E ok \in BOOLEAN :
         IF ok
         THEN /\ file_check_cache' = [file_check_cache EXCEPT !.stage = "ProcessingProjects"]
              /\ SetTask(t, [tasks[t] EXCEPT
                               !.projects = SetToSeq(Projects),
                               !.pc = IF Projects = {} THEN "updating" ELSE "project"])
         ELSE /\ SetTask(t, FailTask(t))
              /\ UNCHANGED file_check_cache
    /\ UNCHANGED <<directory_tree_cache, disk, outside, spawned, callers, calls>>

\* refresh_cache_unified_internal, loop body: process_project and
\* check_project_files_with_details(project.id)?
TaskProject(t) ==
    /\ tasks[t].pc = "project"
    /\ LET p == Head(tasks[t].projects)
           g == get_directory_tree(directory_tree_cache, disk)
       IN \E ok \in BOOLEAN :
            IF ok
            THEN /\ directory_tree_cache' = g.slot
                 /\ SetTask(t, [tasks[t] EXCEPT
                        !.project_cache_updates =
                            [k \in DOMAIN @ \cup {p} |->
                                IF k = p
                                THEN [has_files |-> check_project_files(g.tree, p), scan |-> t]
                                ELSE @[k]],
                        !.pc = "targets"])
            ELSE /\ SetTask(t, FailTask(t))
                 /\ UNCHANGED directory_tree_cache
    /\ UNCHANGED <<file_check_cache, disk, outside, spawned, callers, calls>>

\* refresh_cache_unified_internal, loop body: get_targets_with_images()? and
\* set_targets_info
TaskTargets(t) ==
    /\ tasks[t].pc = "targets"
    /\ LET p == Head(tasks[t].projects)
       IN \E ok \in BOOLEAN :
            IF ok
            THEN /\ file_check_cache' = [file_check_cache EXCEPT !.stage = "ProcessingTargets"]
                 /\ SetTask(t, [tasks[t] EXCEPT
                        !.tqueue = SetToSeq(TargetsOf(p)),
                        !.pc = IF TargetsOf(p) = {} THEN "project_done" ELSE "target"])
            ELSE /\ SetTask(t, FailTask(t))
                 /\ UNCHANGED file_check_cache
    /\ UNCHANGED <<directory_tree_cache, disk, outside, spawned, callers, calls>>

\* refresh_cache_unified_internal, inner loop:
\* check_target_files_with_details(target.id)? and complete_target
TaskTarget(t) ==
    /\ tasks[t].pc = "target"
    /\ LET g == get_directory_tree(directory_tree_cache, disk)
           tg == Head(tasks[t].tqueue)
       IN \E ok \in BOOLEAN :
            IF ok
            THEN /\ directory_tree_cache' = g.slot
                 /\ SetTask(t, [tasks[t] EXCEPT
                        !.target_cache_updates =
                            [k \in DOMAIN @ \cup {tg} |->
                                IF k = tg
                                THEN [has_files |-> check_target_files(g.tree, tg), scan |-> t]
                                ELSE @[k]],
                        !.tqueue = Tail(@),
                        !.pc = IF Len(tasks[t].tqueue) = 1 THEN "project_done" ELSE "target"])
            ELSE /\ SetTask(t, FailTask(t))
                 /\ UNCHANGED directory_tree_cache
    /\ UNCHANGED <<file_check_cache, disk, outside, spawned, callers, calls>>

\* refresh_cache_unified_internal, loop body: complete_project
TaskProjectDone(t) ==
    /\ tasks[t].pc = "project_done"
    /\ SetTask(t, [tasks[t] EXCEPT
                     !.projects = Tail(@),
                     !.pc = IF Len(tasks[t].projects) = 1 THEN "updating" ELSE "project"])
    /\ UNCHANGED <<file_check_cache, directory_tree_cache, disk, outside, spawned, callers, calls>>

\* refresh_cache_unified_internal: set_stage(UpdatingCache)
TaskUpdating(t) ==
    /\ tasks[t].pc = "updating"
    /\ file_check_cache' = [file_check_cache EXCEPT !.stage = "UpdatingCache"]
    /\ SetTask(t, [tasks[t] EXCEPT !.pc = "swap"])
    /\ UNCHANGED <<directory_tree_cache, disk, outside, spawned, callers, calls>>

\* refresh_cache_unified_internal: "Atomic update of both caches"
SwapCaches(c, pu, tu) ==
    [c EXCEPT !.projects_with_files = pu,
              !.targets_with_files = tu,
              !.expired = FALSE,
              !.has_initial_data = TRUE]

TaskSwap(t) ==
    /\ tasks[t].pc = "swap"
    /\ file_check_cache' = SwapCaches(file_check_cache,
                                      tasks[t].project_cache_updates,
                                      tasks[t].target_cache_updates)
    /\ SetTask(t, [tasks[t] EXCEPT !.pc = "complete"])
    /\ UNCHANGED <<directory_tree_cache, disk, outside, spawned, callers, calls>>

\* spawn_background_refresh, spawned closure: mark_refresh_completed() after
\* refresh_cache_unified_internal returned Ok or Err
TaskComplete(t) ==
    /\ tasks[t].pc = "complete"
    /\ file_check_cache' = mark_refresh_completed(file_check_cache)
    /\ SetTask(t, [IdleTask EXCEPT !.pc = "done", !.failed = tasks[t].failed])
    /\ UNCHANGED <<directory_tree_cache, disk, outside, spawned, callers, calls>>

TaskStep(t) ==
    \/ TaskInit(t) \/ TaskTreeCheck(t) \/ TaskTreeBuild(t) \/ TaskTreeStore(t)
    \/ TaskLoadStage(t) \/ TaskLoadProjects(t) \/ TaskProject(t) \/ TaskTargets(t)
    \/ TaskTarget(t) \/ TaskProjectDone(t) \/ TaskUpdating(t) \/ TaskSwap(t)
    \/ TaskComplete(t)


\* ------------------------------------------------------ API calls and requests
SetCaller(c, r) == callers' = [callers EXCEPT ![c] = r]

\* the call returns: its result becomes observable and the caller is free
Finish(c, status, data) ==
    SetCaller(c, [IdleCaller EXCEPT !.op = callers[c].op,
                                    !.saw_empty = callers[c].saw_empty,
                                    !.saw_status = callers[c].saw_status,
                                    !.pc = "responded",
                                    !.status = status,
                                    !.data = data])

\* a caller that is not inside a call can start one
Free(c) == callers[c].pc \in {"idle", "responded"} /\ calls < MaxCalls

StartCall(c, op, pc) == [IdleCaller EXCEPT !.op = op, !.pc = pc]

\* where a call continues once spawn_background_refresh has produced its
\* RefreshStatus: list_projects ignores it and goes on to read the map,
\* ensure_cache_available returns it
Return(c, status) ==
    IF callers[c].op = "list_projects"
    THEN SetCaller(c, [callers[c] EXCEPT !.pc = "lp_read_map"])
    ELSE Finish(c, status, FALSE)

\* ensure_cache_available returning whatever status it read
EnsureRead_returns_observed(c) ==
    Finish(c, get_refresh_status(file_check_cache), FALSE)

\* AppState::ensure_cache_available: the status read and the match on it
EnsureRead(c) ==
    LET status == get_refresh_status(file_check_cache)
    IN IF status = NeedsRefresh
       THEN SetCaller(c, [callers[c] EXCEPT !.pc = "spawn_cas"])
       ELSE Finish(c, status, FALSE)

\* a call of AppState::ensure_cache_available (server startup, API user)
CallEnsure(c) ==
    /\ Free(c)
    /\ calls' = calls + 1
    /\ SetCaller(c, StartCall(c, "ensure", "ensure_read"))
    /\ UNCHANGED <<file_check_cache, directory_tree_cache, disk, outside, tasks, spawned>>

\* AppState::ensure_cache_available, called directly or as the last
\* statement of force_directory_tree_refresh
EnsureCacheAvailable(c) ==
    /\ callers[c].pc = "ensure_read"
    /\ EnsureRead(c)
    /\ UNCHANGED <<file_check_cache, directory_tree_cache, disk, outside, tasks, spawned, calls>>

\* AppState::spawn_background_refresh: the write-lock section that tests and
\* sets refresh_in_progress, and the tokio::spawn that follows it
SpawnCas(c) ==
    /\ callers[c].pc = "spawn_cas"
    /\ IF file_check_cache.refresh_in_progress
       THEN /\ Return(c, IF file_check_cache.has_initial_data
                         THEN InProgressServeStale ELSE InProgressWait)
            /\ UNCHANGED <<file_check_cache, tasks, spawned>>
       ELSE /\ spawned < MaxTasks
            /\ file_check_cache' = mark_refresh_started(file_check_cache)
            /\ spawned' = spawned + 1
            /\ tasks' = [tasks EXCEPT ![spawned + 1] = [IdleTask EXCEPT !.pc = "init"]]
            /\ SetCaller(c, [callers[c] EXCEPT !.pc = "spawn_ret"])
    /\ UNCHANGED <<directory_tree_cache, disk, outside, calls>>

\* AppState::spawn_background_refresh: the final read of has_initial_data
SpawnRet(c) ==
    /\ callers[c].pc = "spawn_ret"
    /\ Return(c, IF file_check_cache.has_initial_data
                 THEN InProgressServeStale ELSE InProgressWait)
    /\ UNCHANGED <<file_check_cache, directory_tree_cache, disk, outside, tasks, spawned, calls>>

\* AppState::force_directory_tree_refresh: "*dir_cache = None"
CallForce(c) ==
    /\ Free(c)
    /\ calls' = calls + 1
    /\ directory_tree_cache' = NoTree
    /\ SetCaller(c, StartCall(c, "force", "force_clear"))
    /\ UNCHANGED <<file_check_cache, disk, outside, tasks, spawned>>

\* AppState::force_directory_tree_refresh: file_cache.clear()
ForceClear(c) ==
    /\ callers[c].pc = "force_clear"
    /\ file_check_cache' = clear(file_check_cache)
    /\ SetCaller(c, [callers[c] EXCEPT !.pc = "ensure_read"])
    /\ UNCHANGED <<directory_tree_cache, disk, outside, tasks, spawned, calls>>

\* handlers::list_projects: the first read section (expired, empty) and the
\* choice between serving stale, refreshing synchronously and serving as is
CallListProjects(c) ==
    /\ Free(c)
    /\ calls' = calls + 1
    /\ LET expired == is_expired(file_check_cache)
           empty == DOMAIN file_check_cache.projects_with_files = {}
           needs_refresh == expired \/ empty
           has_stale_data == ~empty
       IN SetCaller(c, [IdleCaller EXCEPT
                          !.op = "list_projects",
                          !.saw_empty = empty,
                          !.saw_status = get_refresh_status(file_check_cache),
                          !.pc = IF ~needs_refresh THEN "lp_read_map"
                                 ELSE IF has_stale_data THEN "spawn_cas"
                                 ELSE "rpc_tree"])
    /\ UNCHANGED <<file_check_cache, directory_tree_cache, disk, outside, tasks, spawned>>

\* handlers::refresh_file_cache (PUT /refresh-cache): refresh_project_cache
CallRefreshFileCache(c) ==
    /\ Free(c)
    /\ calls' = calls + 1
    /\ SetCaller(c, StartCall(c, "refresh_file_cache", "rpc_tree"))
    /\ UNCHANGED <<file_check_cache, directory_tree_cache, disk, outside, tasks, spawned>>

\* handlers::refresh_project_cache: refresh_directory_tree_if_needed (an Err
\* is logged and ignored) and get_projects_with_images (an Err is returned)
RpcTree(c) ==
    /\ callers[c].pc = "rpc_tree"
    /\ \E tree_ok \in BOOLEAN :
         IF tree_ok
         THEN directory_tree_cache' = get_directory_tree(directory_tree_cache, disk).slot
         ELSE UNCHANGED directory_tree_cache
    /\ \E db_ok \in BOOLEAN :
         IF db_ok
         THEN /\ SetCaller(c, [callers[c] EXCEPT
                                 !.queue = SetToSeq(Projects),
                                 !.pc = IF Projects = {} THEN "rpc_write" ELSE "rpc_check"])
         ELSE Finish(c, "error", FALSE)
    /\ UNCHANGED <<file_check_cache, disk, outside, tasks, spawned, calls>>

\* handlers::refresh_project_cache, loop body: check_project_files_via_cache
RpcCheck(c) ==
    /\ callers[c].pc = "rpc_check"
    /\ LET p == Head(callers[c].queue)
           g == get_directory_tree(directory_tree_cache, disk)
       IN \E ok \in BOOLEAN :
            IF ok
            THEN /\ directory_tree_cache' = g.slot
                 /\ SetCaller(c, [callers[c] EXCEPT
                        !.cache_updates =
                            [k \in DOMAIN @ \cup {p} |->
                                IF k = p
                                THEN [has_files |-> check_project_files(g.tree, p),
                                      scan |-> 0 - c]
                                ELSE @[k]],
                        !.queue = Tail(@),
                        !.pc = IF Len(callers[c].queue) = 1 THEN "rpc_write" ELSE "rpc_check"])
            ELSE /\ Finish(c, "error", FALSE)
                 /\ UNCHANGED directory_tree_cache
    /\ UNCHANGED <<file_check_cache, disk, outside, tasks, spawned, calls>>

\* handlers::refresh_project_cache: "the final atomic update"
RpcWrite(c) ==
    /\ callers[c].pc = "rpc_write"
    /\ file_check_cache' = [file_check_cache EXCEPT
                              !.projects_with_files = callers[c].cache_updates,
                              !.expired = FALSE]
    /\ SetCaller(c, [callers[c] EXCEPT !.cache_updates = EmptyMap, !.pc = "lp_read_map"])
    /\ UNCHANGED <<directory_tree_cache, disk, outside, tasks, spawned, calls>>

\* handlers::list_projects: the read of the project map, the catalog read and
\* ApiResponse::success(response); handlers::refresh_file_cache: the stats
\* read and ApiResponse::success(response)
LpReadMap(c) ==
    /\ callers[c].pc = "lp_read_map"
    /\ \E db_ok \in BOOLEAN :
         IF db_ok \/ callers[c].op = "refresh_file_cache"
         THEN Finish(c, "ready", TRUE)
         ELSE Finish(c, "error", FALSE)
    /\ UNCHANGED <<file_check_cache, directory_tree_cache, disk, outside, tasks, spawned, calls>>

CallerStep(c) ==
    \/ CallEnsure(c) \/ EnsureCacheAvailable(c) \/ SpawnCas(c) \/ SpawnRet(c)
    \/ CallForce(c) \/ ForceClear(c)
    \/ CallListProjects(c) \/ CallRefreshFileCache(c)
    \/ RpcTree(c) \/ RpcCheck(c) \/ RpcWrite(c) \/ LpReadMap(c)

\* ------------------------------------------------------------- environment
\* more than cache_duration has passed since last_updated
TimePasses ==
    /\ ~file_check_cache.expired
    /\ file_check_cache' = [file_check_cache EXCEPT !.expired = TRUE]
    /\ UNCHANGED <<directory_tree_cache, disk, outside, tasks, spawned, callers, calls>>

\* the tree in the slot has become older than 300 s
TreeAges ==
    /\ directory_tree_cache.some
    /\ ~directory_tree_cache.old
    /\ directory_tree_cache' = [directory_tree_cache EXCEPT !.old = TRUE]
    /\ UNCHANGED <<file_check_cache, disk, outside, tasks, spawned, callers, calls>>

Next ==
    \/ \E t \in Tasks : TaskStep(t)
    \/ \E c \in Callers : CallerStep(c)
    \/ TimePasses
    \/ TreeAges

Spec == Init /\ [][Next]_vars

\* ============================================================ path resolver
\* handlers::find_fits_file, one step per look at the disk or at the slot.
\* The disk changes under it (the capture tool writes files, the user moves
\* or deletes them) and the tree in the slot ages.
InitResolver ==
    /\ file_check_cache = FileCheckCache_new
    /\ directory_tree_cache = NoTree
    /\ disk = {}
    /\ tasks = [t \in Tasks |-> IdleTask]
    /\ spawned = 0
    /\ callers = [c \in Callers |-> IdleCaller]
    /\ calls = 0
    /\ CycleAtRest
    /\ ProgressAtRest
    /\ CatalogAtRest
    /\ TreeAtRest
    /\ AnalyzerAtRest
    /\ BoundaryAtRest
    /\ fs \in SUBSET Paths
    /\ index_slot = NoIndex
    /\ resolve = IdleResolve
    /\ ArtifactsAtRest
    /\ RegradeAtRest

ReturnResult(r) == resolve' = [IdleResolve EXCEPT !.pc = "returned", !.result = r]

\* find_fits_file: the acquired_date conversion (BadRequest on an invalid
\* date) and the collection of all_possible_paths
FindFitsFile ==
    /\ resolve.pc \in {"idle", "returned"}
    /\ \E date_ok \in BOOLEAN :
         IF date_ok
         THEN resolve' = [IdleResolve EXCEPT !.pc = "candidates", !.idx = 1]
         ELSE ReturnResult(Err("BadRequest"))
    /\ UNCHANGED <<cache_vars, cycle_vars, progress_vars, catalog_vars, tree_vars, analyzer_vars, boundary_vars, artifact_vars, regrade_vars, fs, index_slot>>

\* find_fits_file: one turn of the loop over all_possible_paths
CheckCandidate ==
    /\ resolve.pc = "candidates"
    /\ IF resolve.idx > Len(all_possible_paths)
       THEN resolve' = [resolve EXCEPT !.pc = "get_tree"]
       ELSE LET path == all_possible_paths[resolve.idx]
            IN IF exists(path, fs)
               THEN ReturnResult(Ok(path, "template"))
               ELSE resolve' = [resolve EXCEPT !.idx = @ + 1]
    /\ UNCHANGED <<cache_vars, cycle_vars, progress_vars, catalog_vars, tree_vars, analyzer_vars, boundary_vars, artifact_vars, regrade_vars, fs, index_slot>>

\* find_fits_file: state.get_directory_tree(), which returns the tree of the
\* slot if it is there and younger than 300 s and otherwise walks the roots
\* (rebuild_directory_tree_internal) and stores the new tree in the slot; an
\* Err of the walk becomes AppError::InternalError
GetDirectoryTree ==
    /\ resolve.pc = "get_tree"
    /\ IF index_slot.some /\ ~index_slot.old
       THEN /\ resolve' = [resolve EXCEPT !.pc = "lookup",
                                          !.directory_tree = index_slot.paths]
            /\ UNCHANGED index_slot
       ELSE \E ok \in BOOLEAN :
              IF ok
              THEN \E tree \in BuiltIndexes(fs) :
                     /\ index_slot' = tree
                     /\ resolve' = [resolve EXCEPT !.pc = "lookup",
                                                   !.directory_tree = tree.paths]
              ELSE /\ ReturnResult(Err("InternalError"))
                   /\ UNCHANGED index_slot
    /\ UNCHANGED <<cache_vars, cycle_vars, progress_vars, catalog_vars, tree_vars, analyzer_vars, boundary_vars, artifact_vars, regrade_vars, fs>>

\* find_fits_file: find_file_first and the test of the path it gave
Lookup ==
    /\ resolve.pc = "lookup"
    /\ ReturnResult(LookupResult(resolve.directory_tree, fs))
    /\ UNCHANGED <<cache_vars, cycle_vars, progress_vars, catalog_vars, tree_vars, analyzer_vars, boundary_vars, artifact_vars, regrade_vars, fs, index_slot>>

\* a file with the requested basename is written under one of the roots
FileAppears(p) ==
    /\ p \notin fs
    /\ fs' = fs \cup {p}
    /\ UNCHANGED <<cache_vars, cycle_vars, progress_vars, catalog_vars, tree_vars, analyzer_vars, boundary_vars, artifact_vars, regrade_vars, index_slot, resolve>>

\* a file with the requested basename is deleted or moved away
FileVanishes(p) ==
    /\ p \in fs
    /\ fs' = fs \ {p}
    /\ UNCHANGED <<cache_vars, cycle_vars, progress_vars, catalog_vars, tree_vars, analyzer_vars, boundary_vars, artifact_vars, regrade_vars, index_slot, resolve>>

\* the tree in the slot has become older than 300 s
IndexAges ==
    /\ index_slot.some
    /\ ~index_slot.old
    /\ index_slot' = [index_slot EXCEPT !.old = TRUE]
    /\ UNCHANGED <<cache_vars, cycle_vars, progress_vars, catalog_vars, tree_vars, analyzer_vars, boundary_vars, artifact_vars, regrade_vars, fs, resolve>>

ResolverStep == FindFitsFile \/ CheckCandidate \/ GetDirectoryTree \/ Lookup

NextResolver ==
    \/ ResolverStep
    \/ \E p \in Paths : FileAppears(p)
    \/ \E p \in Paths : FileVanishes(p)
    \/ IndexAges

SpecResolver == InitResolver /\ [][NextResolver]_vars


\* ==================================================================== claims
RunningTasks == {t \in Tasks : Running(t)}

\* the scans whose results are visible in the two maps of the cache
ScansIn(c) ==
    {c.projects_with_files[k].scan : k \in DOMAIN c.projects_with_files}
    \cup {c.targets_with_files[k].scan : k \in DOMAIN c.targets_with_files}

Maps(c) == <<c.projects_with_files, c.targets_with_files>>

\* a step in which refresh task t finishes (mark_refresh_completed has run)
Completes(t) == tasks[t].pc = "complete" /\ tasks'[t].pc = "done"

\* C1: at every moment at most one task is executing the refresh logic.
C1_AtMostOneRefresh == Cardinality(RunningTasks) <= 1

\* C2: refresh_in_progress is true if and only if a refresh task is running.
C2_FlagIffRunning ==
    file_check_cache.refresh_in_progress <=> (RunningTasks # {})

\* C3: a GET /projects call that found the cache empty returns "loading"
\* with no data; one made during a refresh after data was published returns
\* "refreshing" with data; one made after completion returns "ready".
C3_FreshnessEnvelope ==
    \A c \in Callers :
        (callers[c].pc = "responded" /\ callers[c].op = "list_projects"
            /\ callers[c].status # "error")
        => /\ callers[c].saw_empty
                => (callers[c].status = ApiRefreshStatus_from(InProgressWait)
                    /\ ~callers[c].data)
           /\ (~callers[c].saw_empty /\ callers[c].saw_status = InProgressServeStale)
                => (callers[c].status = ApiRefreshStatus_from(InProgressServeStale)
                    /\ callers[c].data)
           /\ (~callers[c].saw_empty /\ callers[c].saw_status = NotNeeded)
                => callers[c].status = ApiRefreshStatus_from(NotNeeded)

\* C4: the status read from the cache is InProgressServeStale iff a refresh
\* is flagged running and prior data exists, InProgressWait iff it is flagged
\* running and no prior data exists, NeedsRefresh iff none is flagged running
\* and the cache is empty (never filled, both maps empty) or expired, and
\* NotNeeded iff none is flagged running and the cache is populated and
\* within its TTL.
C4_StatusTable ==
    LET c == file_check_cache
        status == get_refresh_status(c)
        running == c.refresh_in_progress
        prior == c.has_initial_data
        empty == ~c.has_initial_data /\ Maps(c) = <<EmptyMap, EmptyMap>>
        expired == c.expired
    IN /\ (status = InProgressServeStale) <=> (running /\ prior)
       /\ (status = InProgressWait) <=> (running /\ ~prior)
       /\ (status = NeedsRefresh) <=> (~running /\ (empty \/ expired))
       /\ (status = NotNeeded) <=> (~running /\ ~empty /\ ~expired)

\* C4 witness: a populated cache inside its TTL with no refresh flagged, read
\* as NotNeeded, while its maps hold the result of a completed refresh.
C4_Witness ==
    /\ get_refresh_status(file_check_cache) = NotNeeded
    /\ DOMAIN file_check_cache.projects_with_files # {}
    /\ \E t \in Tasks : tasks[t].pc = "done"

\* C5: immediately after any refresh completes, has_initial_data is true and
\* refresh_in_progress is false.
C5_AfterCompletion ==
    [][\A t \in Tasks :
          Completes(t) => (file_check_cache'.has_initial_data
                           /\ ~file_check_cache'.refresh_in_progress)]_vars

\* C5 witness: a refresh has completed while a second one was still running,
\* and the flags are as the completion left them.
C5_Witness ==
    /\ \E t \in Tasks : tasks[t].pc = "done"
    /\ file_check_cache.has_initial_data
    /\ ~file_check_cache.refresh_in_progress

\* C6: has_initial_data is true if and only if at least one full refresh (one
\* that reached the step-4 swap) has happened since startup.
C6_InitialDataIffFullRefresh ==
    file_check_cache.has_initial_data
    <=> (\E t \in Tasks : tasks[t].pc \in {"complete", "done"} /\ ~tasks[t].failed)

C8_FailedRefreshIsRetried ==
    [][\A t \in Tasks :
          (Completes(t) /\ tasks[t].failed)
          => (~file_check_cache'.refresh_in_progress
              /\ get_refresh_status(file_check_cache') = NeedsRefresh)]_vars

\* C9: at any time the project map and the target map are those of one scan.
C9_MapsOfOneScan == Cardinality(ScansIn(file_check_cache)) <= 1

\* C10: the directory-tree slot is empty or holds one finished tree: every
\* root has been walked in the tree a reader finds there.
C10_SlotHoldsFinishedTree ==
    directory_tree_cache.some => directory_tree_cache.roots_done = NumRoots

\* C10 witness: a refresh is part-way through building a new tree while the
\* slot still holds the previous one.
C10_Witness ==
    /\ directory_tree_cache.some
    /\ \E t \in Tasks :
         /\ tasks[t].pc = "tree_build"
         /\ tasks[t].building.roots_done > 0
         /\ tasks[t].building.roots_done < NumRoots

\* =========================================================== artifact cache
\* The on-demand handlers get_image_preview and get_annotated_image, and the
\* pre-generation worker, over the files of the cache directory. Every file
\* system call and every blocking task is one step. find_fits_file is
\* abstracted to its outcome.
InitArtifacts ==
    /\ file_check_cache = FileCheckCache_new
    /\ directory_tree_cache = NoTree
    /\ disk = {}
    /\ tasks = [t \in Tasks |-> IdleTask]
    /\ spawned = 0
    /\ callers = [c \in Callers |-> IdleCaller]
    /\ calls = 0
    /\ CycleAtRest
    /\ ProgressAtRest
    /\ CatalogAtRest
    /\ TreeAtRest
    /\ AnalyzerAtRest
    /\ BoundaryAtRest
    /\ fs = {}
    /\ index_slot = NoIndex
    /\ resolve = IdleResolve
    /\ cache_files = [k \in Keys |-> NoFile]
    /\ request = IdleRequest
    /\ pregen = IdleWorker
    /\ shutdown = FALSE
    /\ setup \in [enabled : {{"screen", "annotated"}, {"large", "original"}},
                  image_dim : ImageDims]
    /\ RegradeAtRest

ArtifactFrame == UNCHANGED <<cache_vars, cycle_vars, progress_vars, catalog_vars, tree_vars, analyzer_vars, boundary_vars, resolver_vars, regrade_vars, shutdown, setup>>

SetFile(k, file) == cache_files' = [cache_files EXCEPT ![k] = file]

\* ---- on-demand requests
Respond(status, body) ==
    request' = [request EXCEPT !.pc = "responded", !.status = status, !.body = body]

\* get_image_preview / get_annotated_image: the database reads, the cache
\* key and ensure_category_dir
RequestArtifact(o) ==
    /\ request.pc \in {"idle", "responded"}
    /\ ~shutdown
    /\ \E ok \in BOOLEAN :
         request' = [IdleRequest EXCEPT
                        !.options = o,
                        !.key = request_key(o),
                        !.pc = IF ok THEN "check" ELSE "responded",
                        !.status = IF ok THEN "none" ELSE "error"]
    /\ UNCHANGED <<cache_files, pregen>>
    /\ ArtifactFrame

\* "Check if cached version exists"
RequestCheck ==
    /\ request.pc = "check"
    /\ request' = [request EXCEPT
                      !.pc = IF is_cached(cache_files[request.key]) THEN "serve" ELSE "find"]
    /\ UNCHANGED <<cache_files, pregen>>
    /\ ArtifactFrame

\* "Serve from cache": File::open and read_to_end
RequestServe ==
    /\ request.pc = "serve"
    /\ \E ok \in BOOLEAN :
         IF ok /\ cache_files[request.key].present
         THEN Respond("ok", cache_files[request.key])
         ELSE Respond("error", NoFile)
    /\ UNCHANGED <<cache_files, pregen>>
    /\ ArtifactFrame

\* find_fits_file, and for a preview FitsImage::from_file
RequestFind ==
    /\ request.pc = "find"
    /\ \E ok \in BOOLEAN :
         IF ok
         THEN request' = [request EXCEPT
                            !.pc = IF request.options.kind = "preview"
                                   THEN "generate" ELSE "render"]
         ELSE Respond("error", NoFile)
    /\ UNCHANGED <<cache_files, pregen>>
    /\ ArtifactFrame

\* get_image_preview: stretch_to_png_with_resize in a blocking task
RequestGenerate ==
    /\ request.pc = "generate"
    /\ \E ok \in BOOLEAN :
         /\ SetFile(request.key,
                    stretch_to_png_with_resize(
                        ok, request_output(request.options, setup.image_dim)))
         /\ IF ok
            THEN request' = [request EXCEPT !.pc = "readback"]
            ELSE Respond("error", NoFile)
    /\ UNCHANGED pregen
    /\ ArtifactFrame

\* get_annotated_image: the blocking task that loads the FITS file, creates
\* the annotated image and resizes it
RequestRender ==
    /\ request.pc = "render"
    /\ \E ok \in BOOLEAN :
         IF ok
         THEN request' = [request EXCEPT !.pc = "create"]
         ELSE Respond("error", NoFile)
    /\ UNCHANGED <<cache_files, pregen>>
    /\ ArtifactFrame

\* get_annotated_image: std::fs::File::create(&cache_path)?
RequestCreate ==
    /\ request.pc = "create"
    /\ \E ok \in BOOLEAN :
         IF ok
         THEN /\ SetFile(request.key, PartialFile)
              /\ request' = [request EXCEPT !.pc = "write"]
         ELSE /\ Respond("error", NoFile)
              /\ UNCHANGED cache_files
    /\ UNCHANGED pregen
    /\ ArtifactFrame

\* get_annotated_image: encoder.write_image(..)?
RequestWrite ==
    /\ request.pc = "write"
    /\ \E ok \in BOOLEAN :
         IF ok
         THEN /\ SetFile(request.key,
                         CompleteFile(request_output(request.options, setup.image_dim)))
              /\ request' = [request EXCEPT !.pc = "readback"]
         ELSE /\ Respond("error", NoFile)
              /\ UNCHANGED cache_files
    /\ UNCHANGED pregen
    /\ ArtifactFrame

\* "Read the file back into memory": tokio::fs::read(&cache_path); on an
\* Err get_image_preview removes the file, get_annotated_image does not
RequestReadback ==
    /\ request.pc = "readback"
    /\ \E ok \in BOOLEAN :
         IF ok /\ cache_files[request.key].present
         THEN /\ Respond("ok", cache_files[request.key])
              /\ UNCHANGED cache_files
         ELSE /\ Respond("error", NoFile)
              /\ IF request.options.kind = "preview"
                 THEN SetFile(request.key, NoFile)
                 ELSE UNCHANGED cache_files
    /\ UNCHANGED pregen
    /\ ArtifactFrame

RequestStep ==
    \/ \E o \in Options : RequestArtifact(o)
    \/ RequestCheck \/ RequestServe \/ RequestFind \/ RequestGenerate
    \/ RequestRender \/ RequestCreate \/ RequestWrite \/ RequestReadback

\* ---- the pre-generation worker
\* the formats of the configuration that are enabled, in the worker's order
enabled_formats == SelectSeq(Formats, LAMBDA f : f \in setup.enabled)

\* the worker is done with a format: on to the next one
NextFormat(outcome) ==
    pregen' = [pregen EXCEPT !.pc = "format", !.last = outcome,
                             !.format = "none", !.key = << >>]

\* background_pregeneration_task: interval_timer.tick() and
\* get_all_images_for_pregeneration (on Err or an empty list: continue)
WorkerTick ==
    /\ pregen.pc = "tick"
    /\ \E ok \in BOOLEAN :
         pregen' = [pregen EXCEPT !.last = "none",
                                  !.queue = IF ok THEN enabled_formats ELSE << >>,
                                  !.pc = IF ok THEN "format" ELSE "tick"]
    /\ UNCHANGED <<cache_files, request>>
    /\ ArtifactFrame

\* background_pregeneration_task: the next enabled format of the image, or
\* the rate-limit sleep once all of them are done; pregenerate_*: the
\* database read and the cache key
WorkerFormat ==
    /\ pregen.pc = "format"
    /\ IF pregen.queue = << >>
       THEN pregen' = [pregen EXCEPT !.pc = "delay"]
       ELSE \E ok \in BOOLEAN :
              pregen' = [pregen EXCEPT
                            !.queue = Tail(@),
                            !.format = IF ok THEN Head(pregen.queue) ELSE "none",
                            !.key = IF ok THEN pregenerate_key(Head(pregen.queue)) ELSE << >>,
                            !.last = IF ok THEN "none" ELSE "error",
                            !.pc = IF ok THEN "check" ELSE "format"]
    /\ UNCHANGED <<cache_files, request>>
    /\ ArtifactFrame

\* pregenerate_*: is_cached, the mtime age, and the decision to skip
WorkerCheck ==
    /\ pregen.pc = "check"
    /\ IF should_skip(cache_files[pregen.key])
       THEN NextFormat("skipped")
       ELSE pregen' = [pregen EXCEPT !.pc = "find"]
    /\ UNCHANGED <<cache_files, request>>
    /\ ArtifactFrame

\* pregenerate_*: handlers::find_fits_file
WorkerFind ==
    /\ pregen.pc = "find"
    /\ \E ok \in BOOLEAN :
         IF ok
         THEN pregen' = [pregen EXCEPT
                            !.pc = IF pregen.format = "annotated"
                                   THEN "render" ELSE "generate"]
         ELSE NextFormat("error")
    /\ UNCHANGED <<cache_files, request>>
    /\ ArtifactFrame

\* pregenerate_preview: stretch_to_png_with_resize in a blocking task
WorkerGenerate ==
    /\ pregen.pc = "generate"
    /\ \E ok \in BOOLEAN :
         /\ SetFile(pregen.key,
                    stretch_to_png_with_resize(
                        ok, pregenerate_output(pregen.format, setup.image_dim)))
         /\ NextFormat(IF ok THEN "generated" ELSE "error")
    /\ UNCHANGED request
    /\ ArtifactFrame

\* pregenerate_annotated, blocking task: FitsImage::from_file and
\* create_annotated_image
WorkerRender ==
    /\ pregen.pc = "render"
    /\ \E ok \in BOOLEAN :
         IF ok
         THEN pregen' = [pregen EXCEPT !.pc = "create"]
         ELSE NextFormat("error")
    /\ UNCHANGED <<cache_files, request>>
    /\ ArtifactFrame

\* pregenerate_annotated, blocking task: std::fs::File::create(..)?
WorkerCreate ==
    /\ pregen.pc = "create"
    /\ \E ok \in BOOLEAN :
         IF ok
         THEN /\ SetFile(pregen.key, PartialFile)
              /\ pregen' = [pregen EXCEPT !.pc = "write"]
         ELSE /\ NextFormat("error")
              /\ UNCHANGED cache_files
    /\ UNCHANGED request
    /\ ArtifactFrame

\* pregenerate_annotated, blocking task: encoder.write_image(..)?
WorkerWrite ==
    /\ pregen.pc = "write"
    /\ \E ok \in BOOLEAN :
         IF ok
         THEN /\ SetFile(pregen.key,
                         CompleteFile(pregenerate_output(pregen.format, setup.image_dim)))
              /\ NextFormat("generated")
         ELSE /\ NextFormat("error")
              /\ UNCHANGED cache_files
    /\ UNCHANGED request
    /\ ArtifactFrame

\* background_pregeneration_task: sleep(rate_limit_delay), end of the cycle
WorkerDelay ==
    /\ pregen.pc = "delay"
    /\ pregen' = [pregen EXCEPT !.pc = "tick"]
    /\ UNCHANGED <<cache_files, request>>
    /\ ArtifactFrame

WorkerStep ==
    \/ WorkerTick \/ WorkerFormat \/ WorkerCheck \/ WorkerFind \/ WorkerGenerate
    \/ WorkerRender \/ WorkerCreate \/ WorkerWrite \/ WorkerDelay

\* ---- environment
\* the mtime age of a cache file reaches cache_expiry
FileExpires(k) ==
    /\ cache_files[k].present
    /\ ~cache_files[k].old
    /\ SetFile(k, [cache_files[k] EXCEPT !.old = TRUE])
    /\ UNCHANGED <<cache_vars, cycle_vars, progress_vars, catalog_vars, tree_vars, analyzer_vars, boundary_vars, resolver_vars, regrade_vars, request, pregen, shutdown, setup>>

\* run_server_with_shutdown: the shutdown signal arrives; axum stops
\* accepting requests
Shutdown ==
    /\ ~shutdown
    /\ shutdown' = TRUE
    /\ UNCHANGED <<cache_vars, cycle_vars, progress_vars, catalog_vars, tree_vars, analyzer_vars, boundary_vars, resolver_vars, regrade_vars, cache_files, request, pregen, setup>>

NextArtifacts ==
    \/ RequestStep
    \/ WorkerStep
    \/ \E k \in Keys : FileExpires(k)
    \/ Shutdown

SpecArtifacts == InitArtifacts /\ [][NextArtifacts]_vars

\* ================================================================= regrade
\* A regrade call on the image table: the count that is shown first, then the
\* reset, with the same arguments.
InitRegrade ==
    /\ file_check_cache = FileCheckCache_new
    /\ directory_tree_cache = NoTree
    /\ disk = {}
    /\ tasks = [t \in Tasks |-> IdleTask]
    /\ spawned = 0
    /\ callers = [c \in Callers |-> IdleCaller]
    /\ calls = 0
    /\ CycleAtRest
    /\ ProgressAtRest
    /\ CatalogAtRest
    /\ TreeAtRest
    /\ AnalyzerAtRest
    /\ BoundaryAtRest
    /\ fs = {}
    /\ index_slot = NoIndex
    /\ resolve = IdleResolve
    /\ ArtifactsAtRest
    /\ acquiredimage \in [ImageIds -> Rows]
    /\ regrade = IdleRegrade

\* Database::count_images_to_reset
CountImagesToReset(args) ==
    /\ regrade.pc = "idle"
    /\ regrade' = [pc |-> "counted", args |-> args,
                   count |-> count_images_to_reset(acquiredimage, args),
                   updated |-> 0]
    /\ UNCHANGED <<cache_vars, cycle_vars, progress_vars, catalog_vars, tree_vars, analyzer_vars, boundary_vars, resolver_vars, artifact_vars, acquiredimage>>

\* Database::reset_grading_status
ResetGradingStatus ==
    /\ regrade.pc = "counted"
    /\ LET result == reset_grading_status(acquiredimage, regrade.args)
       IN  /\ acquiredimage' = result.table
           /\ regrade' = [regrade EXCEPT !.pc = "reset", !.updated = result.count]
    /\ UNCHANGED <<cache_vars, cycle_vars, progress_vars, catalog_vars, tree_vars, analyzer_vars, boundary_vars, resolver_vars, artifact_vars>>

NextRegrade ==
    \/ \E args \in RegradeArgs : CountImagesToReset(args)
    \/ ResetGradingStatus

SpecRegrade == InitRegrade /\ [][NextRegrade]_vars

\* ======================================================== request boundary
\* The handlers that take an enum-valued parameter, each as one step from the
\* parameter to the answer.
InitBoundary ==
    /\ file_check_cache = FileCheckCache_new
    /\ directory_tree_cache = NoTree
    /\ disk = {}
    /\ tasks = [t \in Tasks |-> IdleTask]
    /\ spawned = 0
    /\ callers = [c \in Callers |-> IdleCaller]
    /\ calls = 0
    /\ CycleAtRest
    /\ ProgressAtRest
    /\ CatalogAtRest
    /\ TreeAtRest
    /\ AnalyzerAtRest
    /\ fs = {}
    /\ index_slot = NoIndex
    /\ resolve = IdleResolve
    /\ ArtifactsAtRest
    /\ acquiredimage \in [ImageIds -> BoundaryRows]
    /\ regrade = IdleRegrade
    /\ api = IdleApi

BoundaryFrame == UNCHANGED <<cache_vars, cycle_vars, progress_vars, catalog_vars, tree_vars, analyzer_vars, resolver_vars, artifact_vars, regrade>>

Answer(endpoint, value, code, listed, used) ==
    api' = [endpoint |-> endpoint, value |-> value, code |-> code,
            listed |-> listed, used |-> used]

\* handlers::get_images with the status parameter
get_images(status) ==
    /\ \E ok \in BOOLEAN :
         IF ok
         THEN Answer("get_images", status, "OK",
                     query_images(acquiredimage,
                                  IF status.some THEN parse_status(status.value) ELSE None),
                     << >>)
         ELSE Answer("get_images", status, "DatabaseError", {}, << >>)
    /\ UNCHANGED acquiredimage
    /\ BoundaryFrame

\* handlers::update_image_grade
update_image_grade(image_id, status, reason) ==
    /\ LET parsed == parse_status(status)
       IN  IF ~parsed.some
           THEN /\ Answer("update_image_grade", Some(status), "BadRequest", {}, << >>)
                /\ UNCHANGED acquiredimage
           ELSE \E ok \in BOOLEAN :
                  IF ok
                  THEN /\ acquiredimage' =
                            update_grading_status(acquiredimage, image_id,
                                                  parsed.value, reason)
                       /\ Answer("update_image_grade", Some(status), "OK", {}, << >>)
                  ELSE /\ UNCHANGED acquiredimage
                       /\ Answer("update_image_grade", Some(status), "DatabaseError", {}, << >>)
    /\ BoundaryFrame

\* handlers::get_image_preview with the size parameter: the size that goes
\* into the cache key and the bound the preview is rendered with
get_image_preview(size) ==
    /\ \E ok \in BOOLEAN :
         IF ok
         THEN Answer("get_image_preview", size, "OK", {},
                     <<unwrap_or(size, "screen"),
                       max_dimensions(unwrap_or(size, "screen"))>>)
         ELSE Answer("get_image_preview", size, "InternalError", {}, << >>)
    /\ UNCHANGED acquiredimage
    /\ BoundaryFrame

\* handlers::get_psf_visualization with the psf_type parameter
get_psf_visualization(psf_type) ==
    /\ \E ok \in BOOLEAN :
         IF ok
         THEN Answer("get_psf_visualization", psf_type, "OK", {},
                     <<unwrap_or(psf_type, "moffat"),
                       unwrap_or(parse_psf_type(unwrap_or(psf_type, "moffat")), "Moffat4")>>)
         ELSE Answer("get_psf_visualization", psf_type, "InternalError", {}, << >>)
    /\ UNCHANGED acquiredimage
    /\ BoundaryFrame

NextBoundary ==
    \/ \E status \in {None} \cup {Some(str) : str \in StatusStrings} : get_images(status)
    \/ \E image_id \in ImageIds, status \in StatusStrings :
          update_image_grade(image_id, status, None)
    \/ \E size \in {None} \cup {Some(str) : str \in SizeStrings} : get_image_preview(size)
    \/ \E psf_type \in {None} \cup {Some(str) : str \in PsfTypeStrings} :
          get_psf_visualization(psf_type)

SpecBoundary == InitBoundary /\ [][NextBoundary]_vars

\* ======================================================= session splitting
\* split_into_sequences on every list of up to MaxSessionImages images.
InitSessions ==
    /\ file_check_cache = FileCheckCache_new
    /\ directory_tree_cache = NoTree
    /\ disk = {}
    /\ tasks = [t \in Tasks |-> IdleTask]
    /\ spawned = 0
    /\ callers = [c \in Callers |-> IdleCaller]
    /\ calls = 0
    /\ CycleAtRest
    /\ ProgressAtRest
    /\ CatalogAtRest
    /\ TreeAtRest
    /\ fs = {}
    /\ index_slot = NoIndex
    /\ resolve = IdleResolve
    /\ ArtifactsAtRest
    /\ RegradeAtRest
    /\ BoundaryAtRest
    /\ \E n \in 0..MaxSessionImages :
          \E stamps \in [1..n -> Timestamps] :
             images = [i \in 1..n |-> ImageMetrics_at(i, stamps[i])]
    /\ analysis = IdleAnalysis

AnalyzerFrame ==
    UNCHANGED <<cache_vars, cycle_vars, progress_vars, catalog_vars, tree_vars, resolver_vars, artifact_vars, regrade_vars, boundary_vars>>

\* SequenceAnalyzer::analyze: split_into_sequences
SplitIntoSequences ==
    /\ analysis.pc = "input"
    /\ analysis' = [analysis EXCEPT !.pc = "split",
                                    !.sequences = split_into_sequences(images)]
    /\ UNCHANGED images
    /\ AnalyzerFrame

NextSessions == SplitIntoSequences

SpecSessions == InitSessions /\ [][NextSessions]_vars

\* ========================================================== directory tree
\* DirectoryTree::build on volumes of up to MaxFiles files.
InitTree ==
    /\ file_check_cache = FileCheckCache_new
    /\ directory_tree_cache = NoTree
    /\ disk = {}
    /\ tasks = [t \in Tasks |-> IdleTask]
    /\ spawned = 0
    /\ callers = [c \in Callers |-> IdleCaller]
    /\ calls = 0
    /\ CycleAtRest
    /\ ProgressAtRest
    /\ CatalogAtRest
    /\ fs = {}
    /\ index_slot = NoIndex
    /\ resolve = IdleResolve
    /\ ArtifactsAtRest
    /\ RegradeAtRest
    /\ BoundaryAtRest
    /\ AnalyzerAtRest
    /\ \E root \in RootNames :
          \E n \in 0..MaxFiles,
             unreadable \in {{}} \cup {{<<root>> \o d} : d \in Unreadable} :
             \E files \in [1..n -> {<<root>> \o d \o <<f>> :
                                       d \in Directories, f \in FileNames}] :
                volume = [root |-> root,
                          files |-> {files[i] : i \in 1..n},
                          unreadable |-> unreadable]
    /\ tree_build = NoBuild

\* DirectoryTree::build
Build ==
    /\ ~tree_build.some
    /\ tree_build' = build(volume)
    /\ UNCHANGED volume
    /\ UNCHANGED <<cache_vars, cycle_vars, progress_vars, catalog_vars, resolver_vars, artifact_vars, regrade_vars, boundary_vars,
                   analyzer_vars>>

NextTree == Build

SpecTree == InitTree /\ [][NextTree]_vars

\* ============================================================== file checks
\* The three refreshes that compute has_files, on a project of up to MaxRows
\* image rows.
InitCatalog ==
    /\ file_check_cache = FileCheckCache_new
    /\ directory_tree_cache = NoTree
    /\ disk = {}
    /\ tasks = [t \in Tasks |-> IdleTask]
    /\ spawned = 0
    /\ callers = [c \in Callers |-> IdleCaller]
    /\ calls = 0
    /\ CycleAtRest
    /\ ProgressAtRest
    /\ fs = {}
    /\ index_slot = NoIndex
    /\ resolve = IdleResolve
    /\ ArtifactsAtRest
    /\ RegradeAtRest
    /\ BoundaryAtRest
    /\ AnalyzerAtRest
    /\ TreeAtRest
    /\ \E n \in 0..MaxRows : image_rows \in [1..n -> ImageRows]
    /\ file_checks = IdleChecks

CatalogFrame ==
    /\ UNCHANGED image_rows
    /\ UNCHANGED <<cache_vars, cycle_vars, progress_vars, resolver_vars, artifact_vars, regrade_vars, boundary_vars,
                   analyzer_vars, tree_vars>>

\* AppState::refresh_cache_unified_internal: the pass over the project and
\* its targets, the counters and the two maps
RefreshCacheUnified ==
    /\ file_checks.by = "none"
    /\ LET project == check_files_with_details(image_rows)
           targets == targets_with_images(image_rows)
           progress == complete_entity(
                          complete_targets([files_found |-> 0, files_missing |-> 0],
                                           image_rows, SetToSeq(targets)),
                          project)
       IN  file_checks' =
              [by |-> "refresh_cache_unified_internal",
               projects_with_files |->
                  [p \in projects_with_images(image_rows) |-> project[1]],
               targets_with_files |->
                  [t \in targets |->
                      check_files_with_details(of_target(image_rows, t))[1]],
               files_found |-> progress.files_found,
               files_missing |-> progress.files_missing]
    /\ CatalogFrame

\* handlers::refresh_project_cache
RefreshProjectCache ==
    /\ file_checks.by = "none"
    /\ file_checks' =
          [file_checks EXCEPT
              !.by = "refresh_project_cache",
              !.projects_with_files =
                  [p \in projects_with_images(image_rows) |->
                      check_project_files_via_cache(image_rows)]]
    /\ CatalogFrame

\* handlers::refresh_target_cache
RefreshTargetCache ==
    /\ file_checks.by = "none"
    /\ file_checks' =
          [file_checks EXCEPT
              !.by = "refresh_target_cache",
              !.targets_with_files =
                  [t \in targets_with_images(image_rows) |->
                      check_target_has_files(image_rows, t)]]
    /\ CatalogFrame

NextCatalog == RefreshCacheUnified \/ RefreshProjectCache \/ RefreshTargetCache

SpecCatalog == InitCatalog /\ [][NextCatalog]_vars

\* ================================================================ analyzer
\* SequenceAnalyzer::analyze on lists of up to MaxImages frames.
InitAnalyzer ==
    /\ file_check_cache = FileCheckCache_new
    /\ directory_tree_cache = NoTree
    /\ disk = {}
    /\ tasks = [t \in Tasks |-> IdleTask]
    /\ spawned = 0
    /\ callers = [c \in Callers |-> IdleCaller]
    /\ calls = 0
    /\ CycleAtRest
    /\ ProgressAtRest
    /\ CatalogAtRest
    /\ TreeAtRest
    /\ fs = {}
    /\ index_slot = NoIndex
    /\ resolve = IdleResolve
    /\ ArtifactsAtRest
    /\ RegradeAtRest
    /\ BoundaryAtRest
    /\ \E n \in 0..MaxImages, schedule \in Schedules :
          \E frames \in [1..n -> Frames] :
             images = [i \in 1..n |->
                          ImageMetrics_of(i, scheduled(schedule, i), frames[i])]
    /\ analysis = IdleAnalysis

\* SequenceAnalyzer::analyze: score_sequence on every sequence
ScoreSequences ==
    /\ analysis.pc = "split"
    /\ analysis' = [analysis EXCEPT
                       !.pc = "scored",
                       !.scored = [s \in 1..Len(analysis.sequences) |->
                                      score_sequence(analysis.sequences[s])]]
    /\ UNCHANGED images
    /\ AnalyzerFrame

NextAnalyzer == SplitIntoSequences \/ ScoreSequences

SpecAnalyzer == InitAnalyzer /\ [][NextAnalyzer]_vars

\* a step taken by request-handler code of caller c, outside the refresh
\* coordinator (ensure_cache_available / spawn_background_refresh)
HandlerStep(c) ==
    /\ callers'[c] # callers[c]
    /\ callers[c].pc \notin {"ensure_read", "spawn_cas", "spawn_ret"}

\* C14: the directory-tree slot, the file-check cache (both maps,
\* last_updated, has_initial_data) and the refresh progress are written only
\* by the refresh coordinator's task: no step of a request handler changes
\* any of them.
C14_OnlyCoordinatorWrites ==
    [][\A c \in Callers :
          HandlerStep(c)
          => /\ directory_tree_cache' = directory_tree_cache
             /\ Maps(file_check_cache') = Maps(file_check_cache)
             /\ file_check_cache'.expired = file_check_cache.expired
             /\ file_check_cache'.has_initial_data = file_check_cache.has_initial_data
             /\ file_check_cache'.stage = file_check_cache.stage]_vars

\* C15: two consecutive ensure_cache_available calls with no other state
\* change between them return the same status, and the second one starts no
\* refresh: from every cache state the server reaches, a first call followed
\* at once by a second gives the same status twice and one spawn at most.
C15_EnsureIdempotent ==
    LET first == ensure_cache_available(file_check_cache)
        second == ensure_cache_available(first.cache)
    IN /\ second.status = first.status
       /\ ~second.started
       /\ second.cache = first.cache

\* C15 witness: two ensure_cache_available calls have returned one after the
\* other, the first having spawned the refresh, which has not taken a step
\* yet; both returned the same status and one refresh was spawned.
C15_Witness ==
    /\ \A c \in Callers : callers[c].pc = "responded" /\ callers[c].op = "ensure"
    /\ \A c, d \in Callers : callers[c].status = callers[d].status
    /\ spawned = 1
    /\ tasks[1].pc = "init"
    /\ calls = NumCallers

\* ------------------------------------------------------ claims: path resolver
\* a step in which find_fits_file returns
Returns == resolve.pc # "returned" /\ resolve'.pc = "returned"

\* C11: find_fits_file never writes the directory-tree slot and never runs a
\* directory walk: every step it takes leaves the slot as it found it, also
\* when the tree in the slot is stale or absent.
C11_ResolverLeavesSlotAlone ==
    [][resolve' # resolve => index_slot' = index_slot]_vars

\* C12: when no candidate template path exists, find_fits_file returns one of
\* the cached paths whenever at least one of them exists on disk, and fails
\* with NotFound only when none of them exists.
C12_AnyCachedPathThatExists ==
    [][(resolve.pc = "lookup" /\ Returns)
       => LET cached == {resolve.directory_tree[i] : i \in DOMAIN resolve.directory_tree}
          IN IF \E p \in cached : exists(p, fs)
             THEN /\ resolve'.result.kind = "Ok"
                  /\ resolve'.result.path \in cached
             ELSE resolve'.result.kind = "NotFound"]_vars

\* C13: whenever find_fits_file returns a path, by the template branch or by
\* the directory-tree branch, that path exists on disk at the return.
C13_ReturnedPathExists ==
    [][(Returns /\ resolve'.result.kind = "Ok")
       => exists(resolve'.result.path, fs')]_vars

\* C13 witness: a path was returned by the directory-tree branch, from a
\* cached list of several paths, after a file had vanished from the disk
\* since the walk.
C13_Witness ==
    /\ resolve.pc = "returned"
    /\ resolve.result.kind = "Ok"
    /\ resolve.result.via = "tree"
    /\ Len(index_slot.paths) > 1
    /\ \E i \in DOMAIN index_slot.paths : ~exists(index_slot.paths[i], fs)

\* a generation of the artifact under key k fails in this step: in the
\* on-demand request or in the worker, at the render, encode, write or
\* read-back step
GenerationFails(k) ==
    \/ /\ request.pc \in {"generate", "render", "create", "write", "readback"}
       /\ request.key = k
       /\ request'.pc = "responded"
       /\ request'.status = "error"
    \/ /\ pregen.pc \in {"generate", "render", "create", "write"}
       /\ pregen.key = k
       /\ pregen'.pc = "format"
       /\ pregen'.last = "error"

\* C16: after a failed artifact generation no file exists at the artifact's
\* cache path
C16_FailureLeavesNoFile ==
    [][\A k \in Keys : GenerationFails(k) => ~cache_files'[k].present]_vars

\* C17: an on-demand request takes the serve branch exactly when the file is
\* present, whatever its age, and what it serves is that file; the worker
\* skips an artifact exactly when its file is present and younger than
\* cache_expiry, and goes on to regenerate it otherwise
C17_ServeOnPresenceSkipOnFreshness ==
    [][/\ (request.pc = "check" /\ request' # request) =>
            IF cache_files[request.key].present
            THEN request'.pc = "serve"
            ELSE request'.pc = "find"
       /\ (request.pc = "serve" /\ request'.status = "ok") =>
            request'.body = cache_files[request.key]
       /\ (pregen.pc = "check" /\ pregen' # pregen) =>
            IF cache_files[pregen.key].present /\ ~cache_files[pregen.key].old
            THEN pregen'.pc = "format" /\ pregen'.last = "skipped"
            ELSE pregen'.pc = "find"]_vars

\* an on-demand request has served a file older than cache_expiry, and the
\* worker is regenerating a present file that is older than cache_expiry
C17_Witness ==
    /\ request.pc = "responded"
    /\ request.status = "ok"
    /\ request.body.old
    /\ pregen.pc = "find"
    /\ cache_files[pregen.key].present
    /\ cache_files[pregen.key].old

\* C18: once shutdown has been signalled, a worker that stands at its
\* interval tick or at its rate-limit delay goes no further: it starts no
\* scan and no generation
C18_WorkerStopsAtBoundary ==
    [][(shutdown /\ pregen.pc \in {"tick", "delay"}) =>
           pregen'.pc \in {"tick", "delay"}]_vars

\* C19: every finished artifact stored under a cache key is the output that
\* an on-demand request with the parameters of that key renders, whichever
\* producer wrote it
C19_ArtifactMatchesKey ==
    \A o \in Options :
        LET file == cache_files[request_key(o)]
        IN  (file.present /\ file.complete) =>
                file.out = request_output(o, setup.image_dim)

\* C20: the number count_images_to_reset returns is the number of rows that
\* reset_grading_status then updates, on the same table with the same
\* arguments
C20_CountIsResetPopulation ==
    regrade.pc = "reset" => regrade.updated = regrade.count

\* the reject reason of the row contains the token Manual
ContainsManual(row) ==
    row.rejectreason.some /\ Like(row.rejectreason.value, <<"Manual">>)

\* the reset step of a regrade call made without project or target filter
UnfilteredReset ==
    /\ regrade.pc = "counted"
    /\ regrade'.pc = "reset"
    /\ ~regrade.args.project_filter.some
    /\ ~regrade.args.target_filter.some

\* C21: a reset sets to Pending every non-pending row acquired since the
\* cutoff, in mode automatic except exactly the rows whose reject reason
\* contains Manual, and leaves every other non-pending row as it is
C21_ResetPopulation ==
    [][UnfilteredReset =>
        \A i \in ImageIds :
            LET row == acquiredimage[i]
            IN  row.gradingStatus # 0 =>
                  IF /\ row.acquireddate >= regrade.args.date_cutoff
                     /\ (regrade.args.mode = "automatic" => ~ContainsManual(row))
                  THEN acquiredimage'[i].gradingStatus = 0
                  ELSE acquiredimage'[i] = row]_vars

\* C22: a request whose enum-valued parameter is not a value of the enum is
\* rejected: it is never answered OK with a default in place of the value
\* (a failure that comes before the parameter is read may answer instead of
\* BadRequest)
C22_UnknownValueIsRejected ==
    (/\ api.endpoint # "none"
     /\ api.value.some
     /\ api.value.value \notin KnownValues(api.endpoint))
        => api.code # "OK"

\* the image ids of the sequences, in order
RECURSIVE IdsOf(_)
IdsOf(sequences) ==
    IF sequences = << >> THEN << >>
    ELSE [k \in 1..Len(sequences[1]) |-> sequences[1][k].image_id]
            \o IdsOf(Tail(sequences))

\* C23: the sequences partition the input; inside a sequence the images are
\* in ascending timestamp order with no gap above the session gap; between
\* a sequence and the next the gap is above the session gap
C23_SessionsPartitionInput ==
    analysis.pc = "split" =>
        LET sequences == analysis.sequences
            ids == IdsOf(sequences)
        IN  /\ Len(ids) = Len(images)
            /\ \A i \in 1..Len(images) :
                  \E k \in 1..Len(ids) :
                     /\ ids[k] = images[i].image_id
                     /\ \A l \in 1..Len(ids) : ids[l] = ids[k] => l = k
            /\ \A s \in 1..Len(sequences) :
                  /\ sequences[s] # << >>
                  /\ \A k \in 1..Len(sequences[s]) :
                        sequences[s][k] = images[sequences[s][k].image_id]
                  /\ \A k \in 1..(Len(sequences[s]) - 1) :
                        /\ ts(sequences[s][k]) <= ts(sequences[s][k + 1])
                        /\ ts(sequences[s][k + 1]) - ts(sequences[s][k])
                              <= session_gap_minutes * 60
            /\ \A s \in 1..(Len(sequences) - 1) :
                  ts(sequences[s + 1][1]) - ts(sequences[s][Len(sequences[s])])
                      > session_gap_minutes * 60

\* an unsorted input was split into several sessions, one of them holding
\* two images a full session gap apart
C23_Witness ==
    /\ analysis.pc = "split"
    /\ Len(analysis.sequences) > 1
    /\ \E i \in 1..(Len(images) - 1) : ts(images[i]) > ts(images[i + 1])
    /\ \E s \in 1..Len(analysis.sequences) :
          \E k \in 1..(Len(analysis.sequences[s]) - 1) :
             ts(analysis.sequences[s][k + 1]) - ts(analysis.sequences[s][k])
                 = session_gap_minutes * 60

MetricNames == {Metrics[k] : k \in DOMAIN Metrics}

\* the sequences the analyzer has scored, by position
ScoredSequences ==
    IF analysis.pc = "scored" THEN DOMAIN analysis.scored ELSE {}

\* C24: every image of a session with fewer than min_sequence_length images
\* has quality_score 1.0, temporal_anomaly_score 0.0, all five normalized
\* metrics 1.0 and no category, and the summary counts every image as
\* excellent and none in any other bucket.
C24_ShortSessionsArePerfect ==
    \A s \in ScoredSequences :
        Len(analysis.sequences[s]) < min_sequence_length =>
            LET out == analysis.scored[s]
            IN  /\ out.image_count = Len(analysis.sequences[s])
                /\ Len(out.images) = out.image_count
                /\ \A i \in DOMAIN out.images :
                      /\ out.images[i].quality_score = Scale
                      /\ out.images[i].temporal_anomaly_score = 0
                      /\ out.images[i].category = "none"
                      /\ \A m \in MetricNames :
                            out.images[i].normalized_metrics[m] = Some(Scale)
                /\ out.summary.excellent_count = out.image_count
                /\ out.summary.good_count = 0
                /\ out.summary.fair_count = 0
                /\ out.summary.poor_count = 0
                /\ out.summary.bad_count = 0

\* a scored session of two images that differ in star count, snr and
\* background, in a list that holds a second session
C24_Witness ==
    \E s \in ScoredSequences :
        /\ Len(analysis.scored) > 1
        /\ Len(analysis.sequences[s]) = 2
        /\ \A m \in {"star_count", "snr", "background"} :
              /\ analysis.sequences[s][1][m].some
              /\ analysis.sequences[s][2][m].some
              /\ analysis.sequences[s][1][m] # analysis.sequences[s][2][m]

\* C25: every per-image result has 0 <= quality_score <= 1 and
\* temporal_anomaly_score >= 0, and the five bucket counts of a sequence
\* add up to its image_count.
C25_ScoresAndBucketsInRange ==
    \A s \in ScoredSequences :
        LET out == analysis.scored[s]
        IN  /\ \A i \in DOMAIN out.images :
                  /\ out.images[i].quality_score >= 0
                  /\ out.images[i].quality_score <= Scale
                  /\ out.images[i].temporal_anomaly_score >= 0
            /\ out.summary.excellent_count + out.summary.good_count
                  + out.summary.fair_count + out.summary.poor_count
                  + out.summary.bad_count = out.image_count

\* a session scored in full where one image falls in the bad bucket with a
\* temporal anomaly and a later image recovers above its baseline
C25_Witness ==
    \E s \in ScoredSequences :
        /\ Len(analysis.sequences[s]) >= min_sequence_length
        /\ analysis.scored[s].summary.bad_count > 0
        /\ analysis.scored[s].summary.excellent_count > 0
        /\ \E i \in DOMAIN analysis.scored[s].images :
              /\ analysis.scored[s].images[i].temporal_anomaly_score > 0
              /\ i < Len(analysis.sequences[s])
              /\ analysis.sequences[s][i].star_count.some
              /\ analysis.sequences[s][i + 1].star_count.some
              /\ analysis.sequences[s][i + 1].star_count.value
                    > analysis.sequences[s][i].star_count.value

\* C26: an image with final score below 0.7 gets the first category of the
\* rule table that matches, each comparison as the table states it (a star
\* drop above 0.25 with a background rise of 0.10 or less is
\* PossibleObstruction), and an image with score 0.7 or above gets none.
C26_CategoryFollowsRuleTable ==
    \A s \in ScoredSequences :
        LET imgs == analysis.sequences[s]
            out == analysis.scored[s]
        IN  \A i \in DOMAIN out.images :
                IF out.images[i].quality_score >= 700
                THEN out.images[i].category = "none"
                ELSE out.images[i].category =
                        rule_table(out.images[i].quality_score,
                                   compute_fractional_drop(imgs, i, "star_count"),
                                   compute_fractional_rise(imgs, i, "background"),
                                   compute_fractional_rise(imgs, i, "hfr"),
                                   compute_fractional_rise(imgs, i, "eccentricity"),
                                   is_gradual_change(imgs, i, "hfr", 3),
                                   is_gradual_change(imgs, i, "background", 3))

\* C27: the reference value of every metric of every produced sequence is
\* the best value observed in the session (the maximum for star_count and
\* snr, the minimum for hfr, eccentricity and background), and it is null
\* exactly when no image of the session carries the metric.
C27_ReferenceIsBestObserved ==
    \A s \in ScoredSequences : \A m \in MetricNames :
        LET imgs == analysis.sequences[s]
            observed == {imgs[i][m].value : i \in {j \in DOMAIN imgs : imgs[j][m].some}}
            reference == analysis.scored[s].reference_values[m]
        IN  /\ reference.some <=> observed # {}
            /\ reference.some =>
                  /\ reference.value \in observed
                  /\ \A v \in observed :
                        IF m \in HigherBetter THEN v <= reference.value
                        ELSE v >= reference.value

\* a path that lies inside a directory the scan does not enter
InsideSkipped(path) == \E i \in 1..(Len(path) - 1) : path[i] \in skipped_dirs

\* the paths of the filename map
Mapped == UNION {tree_build.file_map[n] : n \in DOMAIN tree_build.file_map}

\* C28: after a build the filename map holds a path for every file under the
\* scanned root that is not inside a directory named DARK, FLAT, BIAS, .git,
\* node_modules, target or .cache, and holds no path inside such a directory
\* at any depth.
C28_MapHoldsExactlyUnskippedFiles ==
    tree_build.some =>
        /\ \A p \in volume.files : ~InsideSkipped(p) => p \in Mapped
        /\ \A p \in Mapped : ~InsideSkipped(p)

\* an image record that resolves through the directory-tree index
Resolves(image) == has_filename(image) /\ in_index(image)

\* C29: the has_files value computed for a project or a target is true
\* exactly when at least one of its image records has its basename in the
\* directory-tree index, whichever refresh computed it.
C29_HasFilesIffSomeImageIndexed ==
    /\ \A p \in DOMAIN file_checks.projects_with_files :
          file_checks.projects_with_files[p]
             <=> \E i \in DOMAIN image_rows : Resolves(image_rows[i])
    /\ \A t \in DOMAIN file_checks.targets_with_files :
          file_checks.targets_with_files[t]
             <=> \E i \in DOMAIN image_rows :
                    image_rows[i].target_id = t /\ Resolves(image_rows[i])

\* C30: when a refresh finishes, files_found is the number of image records
\* with a filename that were found in the index and files_missing the
\* number that were not, each record counted once, whether or not its
\* project or target has any file.
C30_CountersCountEachRecordOnce ==
    file_checks.by = "refresh_cache_unified_internal" =>
        /\ file_checks.files_found =
              Cardinality({i \in DOMAIN image_rows : Resolves(image_rows[i])})
        /\ file_checks.files_missing =
              Cardinality({i \in DOMAIN image_rows :
                              has_filename(image_rows[i]) /\ ~in_index(image_rows[i])})

\* C33: the temporal penalty removes at most half of the composite score: the
\* final score of every image of a scored sequence is at least half of its
\* composite quality score and at most the composite quality score.
C33_PenaltyRemovesAtMostHalf ==
    \A s \in ScoredSequences :
        \A i \in DOMAIN analysis.scored[s].images :
            LET result == analysis.scored[s].images[i]
                composite == composite_score(result.normalized_metrics)
            IN  /\ result.quality_score >= (composite * 500) \div Scale
                /\ result.quality_score <= composite

\* an image scored in full whose temporal score is above 0.5 and whose
\* composite score is not 0
C33_Witness ==
    \E s \in ScoredSequences :
        /\ Len(analysis.sequences[s]) >= min_sequence_length
        /\ \E i \in DOMAIN analysis.scored[s].images :
              /\ analysis.scored[s].images[i].temporal_anomaly_score > 500
              /\ composite_score(analysis.scored[s].images[i].normalized_metrics) > 0

\* the sequences scored in full
FullSequences ==
    {s \in ScoredSequences : Len(analysis.sequences[s]) >= min_sequence_length}

\* C34: normalization keeps positions and missingness: one entry per input,
\* a missing input gives a missing output and a present input a present
\* output in [0, 1]; when all non-missing values of a metric are identical,
\* every non-missing output is exactly 1.0.
C34_NormalizationKeepsShape ==
    \A s \in FullSequences :
        LET imgs == analysis.sequences[s]
            out == analysis.scored[s].images
        IN  /\ Len(out) = Len(imgs)
            /\ \A m \in MetricNames :
                  /\ \A i \in DOMAIN imgs :
                        /\ out[i].image_id = imgs[i].image_id
                        /\ out[i].normalized_metrics[m].some <=> imgs[i][m].some
                        /\ out[i].normalized_metrics[m].some =>
                              /\ out[i].normalized_metrics[m].value >= 0
                              /\ out[i].normalized_metrics[m].value <= Scale
                  /\ Cardinality({imgs[i][m].value :
                                     i \in {j \in DOMAIN imgs : imgs[j][m].some}}) = 1
                        => \A i \in DOMAIN imgs :
                              imgs[i][m].some => out[i].normalized_metrics[m] = Some(Scale)

\* a sequence scored in full with a metric missing in one image and present
\* in another, a metric whose present values are all identical, and a
\* normalized value strictly between 0 and 1
C34_Witness ==
    \E s \in FullSequences :
        LET imgs == analysis.sequences[s]
            out == analysis.scored[s].images
        IN  /\ \E i \in DOMAIN imgs, j \in DOMAIN imgs :
                  ~imgs[i]["hfr"].some /\ imgs[j]["hfr"].some
            /\ \A i \in DOMAIN imgs :
                  imgs[i]["eccentricity"].some => imgs[i]["eccentricity"].value = 30
            /\ \E i \in DOMAIN imgs : imgs[i]["eccentricity"].some
            /\ \E i \in DOMAIN imgs :
                  /\ out[i].normalized_metrics["star_count"].some
                  /\ out[i].normalized_metrics["star_count"].value > 0
                  /\ out[i].normalized_metrics["star_count"].value < Scale

\* the temporal score of img measured against the values of the image before
MeasuredAgainst(img, before) ==
    (temporal_weights.star_count * deviation(img.star_count, before.star_count, TRUE)
     + temporal_weights.background * deviation(img.background, before.background, FALSE)
     + temporal_weights.hfr * deviation(img.hfr, before.hfr, FALSE)
     + temporal_weights.snr * deviation(img.snr, before.snr, TRUE)) \div Scale

\* C35: an image's deviation is measured against the baseline built from the
\* images before it, the EWMA update coming after: the first image of every
\* scored sequence has temporal anomaly score 0, the second is measured
\* against the values of the first, and a sequence whose metrics are
\* constant has temporal anomaly score 0 for every image.
C35_BaselineFromEarlierImages ==
    \A s \in ScoredSequences :
        LET imgs == analysis.sequences[s]
            out == analysis.scored[s].images
        IN  /\ out[1].temporal_anomaly_score = 0
            /\ s \in FullSequences =>
                  out[2].temporal_anomaly_score = MeasuredAgainst(imgs[2], imgs[1])
            /\ (\A i \in DOMAIN imgs : \A m \in MetricNames : imgs[i][m] = imgs[1][m])
                  => \A i \in DOMAIN out : out[i].temporal_anomaly_score = 0

\* a sequence scored in full whose second image deviates from the first
C35_Witness ==
    \E s \in FullSequences :
        /\ analysis.scored[s].images[1].temporal_anomaly_score = 0
        /\ analysis.scored[s].images[2].temporal_anomaly_score > 0
        /\ analysis.sequences[s][1].star_count.some

\* a step in which the call of ensure_cache_available made by caller c
\* (directly, or at the end of force_directory_tree_refresh) returns
EnsureReturns(c) ==
    /\ callers[c].op \in {"ensure", "force"}
    /\ callers[c].pc # "responded"
    /\ callers'[c].pc = "responded"

\* C36: ensure_cache_available never returns NeedsRefresh: when the status
\* it reads is NeedsRefresh it goes on to spawn_background_refresh, which
\* either starts the refresh or finds one running and returns
\* InProgressWait or InProgressServeStale; otherwise it returns the status
\* it read.
C36_EnsureNeverReturnsNeedsRefresh ==
    [][\A c \in Callers :
          /\ EnsureReturns(c) =>
                /\ callers'[c].status \in {NotNeeded, InProgressWait, InProgressServeStale}
                /\ callers[c].pc = "ensure_read" =>
                      callers'[c].status = get_refresh_status(file_check_cache)
                /\ callers[c].pc \in {"spawn_cas", "spawn_ret"} =>
                      callers'[c].status \in {InProgressWait, InProgressServeStale}
                /\ callers[c].pc = "spawn_cas" => file_check_cache.refresh_in_progress
          /\ (/\ callers[c].op \in {"ensure", "force"}
              /\ callers[c].pc = "ensure_read"
              /\ callers'[c] # callers[c]
              /\ get_refresh_status(file_check_cache) = NeedsRefresh)
                => callers'[c].pc = "spawn_cas"
          /\ (/\ callers[c].op \in {"ensure", "force"}
              /\ callers[c].pc = "spawn_cas"
              /\ callers'[c].pc = "spawn_ret")
                => /\ ~file_check_cache.refresh_in_progress
                   /\ file_check_cache'.refresh_in_progress
                   /\ spawned' = spawned + 1]_vars

\* a call of ensure_cache_available that started the refresh has returned
\* InProgressWait, and another that found it running has returned too
C36_Witness ==
    \E c \in Callers, d \in Callers :
        /\ c # d
        /\ callers[c].op = "ensure" /\ callers[c].pc = "responded"
        /\ callers[c].status = InProgressWait
        /\ callers[d].op = "ensure" /\ callers[d].pc = "responded"
        /\ callers[d].status \in {InProgressWait, InProgressServeStale}
        /\ spawned = 1

\* ========================================================= refresh progress
\* The unified refresh as its readers see it: the RefreshProgress record the
\* tasks write section by section, and the directory tree each has_files
\* check reads. Trees carry the number of the walk that built them.
InitProgress ==
    /\ file_check_cache = FileCheckCache_new
    /\ directory_tree_cache = NoTree
    /\ disk = {}
    /\ tasks = [t \in Tasks |-> IdleTask]
    /\ spawned = 0
    /\ callers = [c \in Callers |-> IdleCaller]
    /\ calls = 0
    /\ CycleAtRest
    /\ fs = {}
    /\ index_slot = NoIndex
    /\ resolve = IdleResolve
    /\ ArtifactsAtRest
    /\ RegradeAtRest
    /\ BoundaryAtRest
    /\ AnalyzerAtRest
    /\ TreeAtRest
    /\ CatalogAtRest
    /\ refresh_progress = RefreshProgress_default
    /\ refreshing = FALSE
    /\ refreshers = [t \in Refreshers |-> UnbornRefresher]
    /\ tree_slot = EmptySlot
    /\ builds = 0
    /\ \E n \in 0..MaxProjects : scan_catalog \in [1..n -> 1..MaxTargets]
    /\ forces = 0

ProgressFrame ==
    /\ UNCHANGED scan_catalog
    /\ UNCHANGED <<cache_vars, cycle_vars, resolver_vars, artifact_vars, regrade_vars, boundary_vars, analyzer_vars, tree_vars, catalog_vars>>

AtWork(t) == refreshers[t].pc \notin {"unborn", "done"}

SetRefresher(t, r) == refreshers' = [refreshers EXCEPT ![t] = r]

\* every task at work has seen another writer of the progress record
Disturb(rs) == [u \in Refreshers |-> IF rs[u].pc \notin {"unborn", "done"} THEN [rs[u] EXCEPT !.disturbed = TRUE] ELSE rs[u]]

\* spawn_background_refresh, past the refresh_in_progress test:
\* mark_refresh_started and tokio::spawn
SpawnRefresh(t) ==
    /\ ~refreshing
    /\ refreshers[t].pc = "unborn"
    /\ \A u \in Refreshers : u < t => refreshers[u].pc # "unborn"
    /\ refreshing' = TRUE
    /\ refresh_progress' = start_refresh(refresh_progress)
    /\ refreshers' = [Disturb(refreshers) EXCEPT
                        ![t] = [UnbornRefresher EXCEPT
                                  !.pc = "init",
                                  !.disturbed = \E u \in Refreshers : AtWork(u)]]
    /\ UNCHANGED <<tree_slot, builds, forces>>
    /\ ProgressFrame

\* refresh_cache_unified_internal: first progress section
RefreshInit(t) ==
    /\ refreshers[t].pc = "init"
    /\ refresh_progress' = set_directories_info(set_stage(refresh_progress, "InitializingDirectoryTree"), NumRoots)
    /\ SetRefresher(t, [refreshers[t] EXCEPT !.pc = "tree_check"])
    /\ UNCHANGED <<refreshing, tree_slot, builds, forces>>
    /\ ProgressFrame

\* tree.is_older_than(Duration::from_secs(300)) on the tree in the slot
SlotFresh(slot) == slot.some /\ ~slot.old

\* refresh_directory_tree_with_progress: the freshness check; a fresh tree
\* is returned as it is, otherwise the walk starts
RefreshTreeCheck(t) ==
    /\ refreshers[t].pc = "tree_check"
    /\ IF SlotFresh(tree_slot)
       THEN /\ SetRefresher(t, [refreshers[t] EXCEPT !.pc = "load_stage", !.step1 = tree_slot.gen])
            /\ UNCHANGED builds
       ELSE /\ builds < MaxBuilds
            /\ builds' = builds + 1
            /\ SetRefresher(t, [refreshers[t] EXCEPT !.pc = "tree_build", !.building = builds + 1])
    /\ UNCHANGED <<refresh_progress, refreshing, tree_slot, forces>>
    /\ ProgressFrame

\* the walk of build_multiple_with_progress reaching the next root: the
\* callback sends the number of roots walked so far down the channel
RefreshWalk(t) ==
    /\ refreshers[t].pc = "tree_build"
    /\ SetRefresher(t, [refreshers[t] EXCEPT
                          !.channel = Append(@, refreshers[t].sent),
                          !.sent = @ + 1,
                          !.pc = IF refreshers[t].sent + 1 >= NumRoots
                                 THEN "tree_complete" ELSE "tree_build"])
    /\ UNCHANGED <<refresh_progress, refreshing, tree_slot, builds, forces>>
    /\ ProgressFrame

\* refresh_directory_tree_with_progress, progress_task: one message applied
ProgressTask(t) ==
    /\ refreshers[t].pc \in {"tree_build", "tree_complete", "tree_store"}
    /\ refreshers[t].channel # << >>
    /\ refresh_progress' = [refresh_progress EXCEPT !.directories_processed = Head(refreshers[t].channel)]
    /\ SetRefresher(t, [refreshers[t] EXCEPT !.channel = Tail(@)])
    /\ UNCHANGED <<refreshing, tree_slot, builds, forces>>
    /\ ProgressFrame

\* refresh_directory_tree_with_progress: "Complete the last directory"
RefreshCompleteDirectory(t) ==
    /\ refreshers[t].pc = "tree_complete"
    /\ refresh_progress' = complete_directory(refresh_progress)
    /\ SetRefresher(t, [refreshers[t] EXCEPT !.pc = "tree_store"])
    /\ UNCHANGED <<refreshing, tree_slot, builds, forces>>
    /\ ProgressFrame

\* refresh_directory_tree_with_progress: progress_task.abort() and
\* "*cache = Some(tree_result.clone())"
RefreshTreeStore(t) ==
    /\ refreshers[t].pc = "tree_store"
    /\ tree_slot' = [some |-> TRUE, gen |-> refreshers[t].building, old |-> FALSE]
    /\ SetRefresher(t, [refreshers[t] EXCEPT
                          !.pc = "load_stage", !.channel = << >>,
                          !.step1 = refreshers[t].building, !.building = 0])
    /\ UNCHANGED <<refresh_progress, refreshing, builds, forces>>
    /\ ProgressFrame

\* refresh_cache_unified_internal: set_stage(LoadingProjects)
RefreshLoadStage(t) ==
    /\ refreshers[t].pc = "load_stage"
    /\ refresh_progress' = set_stage(refresh_progress, "LoadingProjects")
    /\ SetRefresher(t, [refreshers[t] EXCEPT !.pc = "load_projects"])
    /\ UNCHANGED <<refreshing, tree_slot, builds, forces>>
    /\ ProgressFrame

\* refresh_cache_unified_internal: get_projects_with_images and
\* set_projects_info(projects.len())
RefreshLoadProjects(t) ==
    /\ refreshers[t].pc = "load_projects"
    /\ refresh_progress' = set_projects_info(refresh_progress, Len(scan_catalog))
    /\ SetRefresher(t, [refreshers[t] EXCEPT
                          !.pi = 1,
                          !.pc = IF Len(scan_catalog) = 0 THEN "updating" ELSE "project"])
    /\ UNCHANGED <<refreshing, tree_slot, builds, forces>>
    /\ ProgressFrame

\* AppState::get_directory_tree as the has_files checks call it: the tree
\* in the slot when it is fresh, otherwise a tree walked and stored now
tree_for_check(slot, n) ==
    IF SlotFresh(slot) THEN slot ELSE [some |-> TRUE, gen |-> n + 1, old |-> FALSE]

\* one has_files check of task t (check_project_files_with_details or
\* check_target_files_with_details): the tree it reads, noted in used
CheckFiles(t, r) ==
    LET tree == tree_for_check(tree_slot, builds)
    IN /\ ~SlotFresh(tree_slot) => builds < MaxBuilds
       /\ tree_slot' = IF SlotFresh(tree_slot) THEN tree_slot ELSE tree
       /\ builds' = IF SlotFresh(tree_slot) THEN builds ELSE builds + 1
       /\ SetRefresher(t, [r EXCEPT !.used = @ \cup {tree.gen}])

\* refresh_cache_unified_internal, loop body:
\* check_project_files_with_details(project.id)
RefreshProject(t) ==
    /\ refreshers[t].pc = "project"
    /\ CheckFiles(t, [refreshers[t] EXCEPT !.pc = "targets"])
    /\ UNCHANGED <<refresh_progress, refreshing, forces>>
    /\ ProgressFrame

\* refresh_cache_unified_internal, loop body: get_targets_with_images and
\* set_targets_info(project_targets.len())
RefreshTargets(t) ==
    /\ refreshers[t].pc = "targets"
    /\ LET n == scan_catalog[refreshers[t].pi]
       IN /\ refresh_progress' = set_targets_info(refresh_progress, n)
          /\ SetRefresher(t, [refreshers[t] EXCEPT !.tleft = n, !.pc = "target"])
    /\ UNCHANGED <<refreshing, tree_slot, builds, forces>>
    /\ ProgressFrame

\* refresh_cache_unified_internal, inner loop:
\* check_target_files_with_details(target.id) and complete_target
RefreshTarget(t) ==
    /\ refreshers[t].pc = "target"
    /\ CheckFiles(t, [refreshers[t] EXCEPT
                        !.tleft = @ - 1,
                        !.pc = IF refreshers[t].tleft = 1 THEN "project_done" ELSE "target"])
    /\ refresh_progress' = complete_target(refresh_progress)
    /\ UNCHANGED <<refreshing, forces>>
    /\ ProgressFrame

\* refresh_cache_unified_internal, loop body: complete_project
RefreshProjectDone(t) ==
    /\ refreshers[t].pc = "project_done"
    /\ refresh_progress' = complete_project(refresh_progress)
    /\ SetRefresher(t, [refreshers[t] EXCEPT
                          !.pi = @ + 1,
                          !.pc = IF refreshers[t].pi >= Len(scan_catalog)
                                 THEN "updating" ELSE "project"])
    /\ UNCHANGED <<refreshing, tree_slot, builds, forces>>
    /\ ProgressFrame

\* refresh_cache_unified_internal: set_stage(UpdatingCache)
RefreshUpdating(t) ==
    /\ refreshers[t].pc = "updating"
    /\ refresh_progress' = set_stage(refresh_progress, "UpdatingCache")
    /\ SetRefresher(t, [refreshers[t] EXCEPT !.pc = "swap"])
    /\ UNCHANGED <<refreshing, tree_slot, builds, forces>>
    /\ ProgressFrame

\* refresh_cache_unified_internal: "Atomic update of both caches"; the
\* has_files values computed by the checks are published
RefreshSwap(t) ==
    /\ refreshers[t].pc = "swap"
    /\ SetRefresher(t, [refreshers[t] EXCEPT !.pc = "complete"])
    /\ UNCHANGED <<refresh_progress, refreshing, tree_slot, builds, forces>>
    /\ ProgressFrame

\* the spawned closure: mark_refresh_completed (complete_refresh)
RefreshComplete(t) ==
    /\ refreshers[t].pc = "complete"
    /\ refreshing' = FALSE
    /\ refresh_progress' = complete_refresh(refresh_progress)
    /\ SetRefresher(t, [refreshers[t] EXCEPT !.pc = "done"])
    /\ UNCHANGED <<tree_slot, builds, forces>>
    /\ ProgressFrame

\* AppState::force_directory_tree_refresh: "*dir_cache = None" and
\* file_cache.clear(); the ensure_cache_available that ends it is
\* SpawnRefresh
ForceRefresh ==
    /\ forces < MaxForces
    /\ forces' = forces + 1
    /\ tree_slot' = EmptySlot
    /\ refreshing' = FALSE
    /\ refresh_progress' = RefreshProgress_default
    /\ refreshers' = Disturb(refreshers)
    /\ UNCHANGED builds
    /\ ProgressFrame

\* the tree in the slot has become older than 300 s
TreeExpires ==
    /\ tree_slot.some
    /\ ~tree_slot.old
    /\ tree_slot' = [tree_slot EXCEPT !.old = TRUE]
    /\ UNCHANGED <<refresh_progress, refreshing, refreshers, builds, forces>>
    /\ ProgressFrame

RefresherStep(t) ==
    \/ SpawnRefresh(t) \/ RefreshInit(t) \/ RefreshTreeCheck(t) \/ RefreshWalk(t)
    \/ ProgressTask(t) \/ RefreshCompleteDirectory(t) \/ RefreshTreeStore(t)
    \/ RefreshLoadStage(t) \/ RefreshLoadProjects(t) \/ RefreshProject(t)
    \/ RefreshTargets(t) \/ RefreshTarget(t) \/ RefreshProjectDone(t)
    \/ RefreshUpdating(t) \/ RefreshSwap(t) \/ RefreshComplete(t)

NextProgress ==
    \/ \E t \in Refreshers : RefresherStep(t)
    \/ ForceRefresh
    \/ TreeExpires

SpecProgress == InitProgress /\ [][NextProgress]_vars

\* C31: in every reachable state the progress percentage lies in the band of
\* the current stage (0 Idle, 2..10 InitializingDirectoryTree, 10
\* LoadingProjects, 15..65 ProcessingProjects, 65..90 ProcessingTargets, 95
\* UpdatingCache, 100 Completed), the processed counters do not exceed their
\* totals, and the percentage is within 0..100.
C31_PercentageInStageBand ==
    LET p == refresh_progress
        pct == get_progress_percentage(p)
    IN /\ p.stage = "Idle" => pct = 0
       /\ p.stage = "InitializingDirectoryTree" => pct >= 2 * Scale /\ pct <= 10 * Scale
       /\ p.stage = "LoadingProjects" => pct = 10 * Scale
       /\ p.stage = "ProcessingProjects" => pct >= 15 * Scale /\ pct <= 65 * Scale
       /\ p.stage = "ProcessingTargets" => pct >= 65 * Scale /\ pct <= 90 * Scale
       /\ p.stage = "UpdatingCache" => pct = 95 * Scale
       /\ p.stage = "Completed" => pct = 100 * Scale
       /\ p.directories_processed <= p.directories_total
       /\ p.projects_processed <= p.projects_total
       /\ p.targets_processed <= p.targets_total
       /\ pct >= 0 /\ pct <= 100 * Scale

\* a step of one refresh that no other writer of the progress record has
\* met: task t is at work before and after it, undisturbed
OneRefreshStep(t) ==
    /\ AtWork(t) /\ ~refreshers[t].disturbed
    /\ refreshers'[t].pc # "unborn" /\ ~refreshers'[t].disturbed

\* C37: during one refresh the progress never goes backwards: the stage
\* only advances in the order of the stage list and the percentage read
\* after a step is not below the percentage read before it.
C37_ProgressNeverGoesBackwards ==
    [][\A t \in Refreshers :
          OneRefreshStep(t) =>
             /\ StageRank(refresh_progress'.stage) >= StageRank(refresh_progress.stage)
             /\ get_progress_percentage(refresh_progress') >= get_progress_percentage(refresh_progress)]_vars

\* the has_files values of task t have been published
Published(t) == refreshers[t].pc \in {"complete", "done"} /\ refreshers[t].used # {}

\* C39: all has_files values one refresh publishes were computed against
\* one directory-tree snapshot, the one step 1 of that refresh made current.
C39_PublishedFromStepOneSnapshot ==
    \A t \in Refreshers :
        Published(t) => refreshers[t].used = {refreshers[t].step1}

\* C38: every successful artifact response carries the complete output of
\* one finished generation, also while another producer is generating the
\* same key: a request that finds the cache file present never serves a
\* file that is still being written.
C38_ResponseIsFinishedOutput ==
    (request.pc = "responded" /\ request.status = "ok")
        => /\ request.body.present
           /\ request.body.complete

\* ===================================================== pre-generation cycle
\* background_pregeneration_task as a loop over the images of one scan and
\* the four format blocks of each image; what pregenerate_preview and
\* pregenerate_annotated do to the cache is in the artifact model, here each
\* call is its result: Ok(true), Ok(false) or Err.
InitCycle ==
    /\ file_check_cache = FileCheckCache_new
    /\ directory_tree_cache = NoTree
    /\ disk = {}
    /\ tasks = [t \in Tasks |-> IdleTask]
    /\ spawned = 0
    /\ callers = [c \in Callers |-> IdleCaller]
    /\ calls = 0
    /\ fs = {}
    /\ index_slot = NoIndex
    /\ resolve = IdleResolve
    /\ ArtifactsAtRest
    /\ RegradeAtRest
    /\ BoundaryAtRest
    /\ AnalyzerAtRest
    /\ TreeAtRest
    /\ CatalogAtRest
    /\ ProgressAtRest
    /\ pregeneration_config \in SUBSET {Formats[i] : i \in DOMAIN Formats}
    /\ cycle = IdleCycle

CycleFrame ==
    /\ UNCHANGED pregeneration_config
    /\ UNCHANGED <<cache_vars, resolver_vars, artifact_vars, regrade_vars, boundary_vars, analyzer_vars, tree_vars, catalog_vars, progress_vars>>

PregenerateResults == {"Ok(true)", "Ok(false)", "Err"}

\* interval_timer.tick() and get_all_images_for_pregeneration: on Err or on
\* an empty list the loop continues with the next tick; otherwise the
\* counters of the cycle start at 0
CycleTick ==
    /\ cycle.pc = "tick"
    /\ \E ok \in BOOLEAN, n \in 0..MaxCycleImages :
         cycle' = IF ok /\ n > 0
                  THEN [IdleCycle EXCEPT !.pc = "format", !.images = n, !.image = 1, !.format = 1]
                  ELSE IdleCycle
    /\ CycleFrame

\* one of the four format blocks of the current image: when the format is
\* enabled, pregenerate_preview or pregenerate_annotated is called once and
\* its result counted; the next block follows in either case
CycleFormat ==
    /\ cycle.pc = "format"
    /\ LET f == Formats[cycle.format]
           next == IF cycle.format = Len(Formats) THEN "processed" ELSE "format"
       IN IF f \in pregeneration_config
          THEN \E result \in PregenerateResults :
                 cycle' = [cycle EXCEPT
                             !.counts = count_result(@, result),
                             !.attempts = Append(@, <<cycle.image, f>>),
                             !.format = IF next = "format" THEN @ + 1 ELSE @,
                             !.pc = next]
          ELSE cycle' = [cycle EXCEPT
                           !.format = IF next = "format" THEN @ + 1 ELSE @,
                           !.pc = next]
    /\ CycleFrame

\* processed_count += 1 and sleep(rate_limit_delay); then the next image of
\* the batch, or the end of the loops
CycleProcessed ==
    /\ cycle.pc = "processed"
    /\ cycle' = [cycle EXCEPT
                   !.counts = [@ EXCEPT !.processed_count = @ + 1],
                   !.image = IF cycle.image < cycle.images THEN @ + 1 ELSE @,
                   !.format = 1,
                   !.pc = IF cycle.image < cycle.images THEN "format" ELSE "complete"]
    /\ CycleFrame

\* "Pre-generation cycle complete": the counts are logged and the loop goes
\* back to the tick
CycleComplete ==
    /\ cycle.pc = "complete"
    /\ cycle' = [cycle EXCEPT !.pc = "tick"]
    /\ CycleFrame

NextCycle == CycleTick \/ CycleFormat \/ CycleProcessed \/ CycleComplete

SpecCycle == InitCycle /\ [][NextCycle]_vars

\* the (image, enabled format) pairs of the cycle
CyclePairs == (1..cycle.images) \X pregeneration_config

\* how many times the pair was attempted in the cycle
Attempted(pair) == Cardinality({i \in DOMAIN cycle.attempts : cycle.attempts[i] = pair})

\* C32: within one cycle no (image, enabled format) pair is attempted twice
\* and every attempt is counted once as generated, skipped or error; at the
\* end of the cycle every pair has been attempted exactly once, errors
\* included, and generated + skipped + errors is the number of pairs.
C32_EveryPairAttemptedOnce ==
    LET c == cycle.counts
    IN /\ \A i \in DOMAIN cycle.attempts : cycle.attempts[i] \in CyclePairs
       /\ \A pair \in CyclePairs : Attempted(pair) <= 1
       /\ c.generated_count + c.skipped_count + c.error_count = Len(cycle.attempts)
       /\ cycle.pc = "complete" =>
            /\ \A pair \in CyclePairs : Attempted(pair) = 1
            /\ c.generated_count + c.skipped_count + c.error_count = Cardinality(CyclePairs)
            /\ c.processed_count = cycle.images

\* a finished cycle over two images and at least two enabled formats in
\* which a generation failed and later pairs were still generated
C32_Witness ==
    /\ cycle.pc = "complete"
    /\ cycle.images = 2
    /\ Cardinality(pregeneration_config) >= 2
    /\ cycle.counts.error_count >= 1
    /\ cycle.counts.generated_count >= 1
    /\ cycle.counts.skipped_count >= 1

====
